---- MODULE Spec2Model ----
(***************************************************************************)
(* Event-window price resolution and forward returns of the FOMC thesis    *)
(* scripts: run_horizon_sweep.py (price cache, as-of lookup, forward       *)
(* returns) and build_zq_surprise.py (ZQ surprise per meeting).            *)
(*                                                                         *)
(* Conventions.                                                            *)
(*  - A pandas Timestamp / int64 nanosecond value is a record [sec, ns]    *)
(*    with 0 <= ns < NsPerSec, standing for sec * NsPerSec + ns; seconds   *)
(*    are counted from 00:00:00 UTC of the meeting day.                    *)
(*  - A price in a tick file is an integer number of hundredths (99.98 is  *)
(*    9998); a price of a series is an integer number of ten-thousandths   *)
(*    (99.98 is 999800), so that price / 100.0 is exact.  Float rounding   *)
(*    is not modelled; sums and differences are exact.                     *)
(*  - A float cell is [nan |-> TRUE, v |-> 0] (NaN) or [nan |-> FALSE,     *)
(*    v |-> x].                                                            *)
(***************************************************************************)
EXTENDS Integers, Sequences, FiniteSets, TLC

VARIABLES
    store,      \* S3 TICK_ROOT: <<meeting_id, sym>> -> tick file
    rets,       \* the returns frame handed to add_forward_returns (rows in order)
    horizons,   \* the horizon list handed to add_forward_returns
    cache,      \* build_price_cache: <<meeting_id, sym>> -> series (partial)
    bq,         \* build_price_cache: <<sym, meeting_id>> pairs still to visit
    d_px,       \* add_forward_returns: the columns d_px_h written so far
    hi,         \* add_forward_returns: position in the horizon list
    pc,         \* position of run_horizon_sweep.main()
    map_dates,  \* build_zq_surprise: the meeting_date column of MAP_CSV
    zq_files,   \* build_zq_surprise: meeting date -> ZQ tick parquet of that day
    zq_todo,    \* build_zq_surprise.main: the meeting dates still to visit
    zq_rows,    \* build_zq_surprise.main: rows, the records appended so far
    zq_pc,      \* position of build_zq_surprise.main()
    w_script,   \* the script whose winsorization runs
    w_rows,     \* the returns table it reads: rows [sym, d_px]
    w_sigma,    \* --winsor-sigma
    w_once,     \* the winsorized column
    w_twice,    \* the winsorized column, winsorized again
    w_pc,       \* "idle", "start", "once", "twice"
    f_script,   \* the script whose feature assembly runs
    f_allowed,  \* --allowed-labels of run_per_emotion_regressions.py
    f_segments, \* the segments table it reads
    f_returns,  \* the returns table it reads
    f_joined,   \* the returns table after the label join
    f_features, \* the feature rows: the joined rows with their indicators
    f_pc        \* "idle", "start", "joined", "features", or where it stopped

sweep_vars == <<store, rets, horizons, cache, bq, d_px, hi, pc>>
zq_vars == <<map_dates, zq_files, zq_todo, zq_rows, zq_pc>>
w_vars == <<w_script, w_rows, w_sigma, w_once, w_twice, w_pc>>
f_vars == <<f_script, f_allowed, f_segments, f_returns, f_joined, f_features, f_pc>>
vars == <<store, rets, horizons, cache, bq, d_px, hi, pc,
          map_dates, zq_files, zq_todo, zq_rows, zq_pc,
          w_script, w_rows, w_sigma, w_once, w_twice, w_pc,
          f_script, f_allowed, f_segments, f_returns, f_joined, f_features, f_pc>>

----------------------------------------------------------------------------
(* Values *)

NsPerSec == 1000000000

NaN == [nan |-> TRUE, v |-> 0]
Num(x) == [nan |-> FALSE, v |-> x]

NaT == [nat |-> TRUE, sec |-> 0, ns |-> 0]
Ts(s, n) == [nat |-> FALSE, sec |-> s, ns |-> n]

ASSETS == <<"ES", "ZT">>
HORIZONS == [i \in 1..13 |-> (i - 1) * 25]

Range(s) == {s[i] : i \in DOMAIN s}

----------------------------------------------------------------------------
(* run_horizon_sweep.py: build_price_cache *)

\* ticks["ts_event"].astype("int64") // 1_000_000_000
SecOfEvent(ts) == ts.sec + (ts.ns \div NsPerSec)

\* price / 100.0 for ES, unchanged otherwise; hundredths in, ten-thousandths out
ScalePrice(sym, p) == IF sym = "ES" THEN p ELSE p * 100

\* pd.DataFrame({"sec": sec, "price": price})
SecFrame(sym, ticks) ==
    [i \in 1..Len(ticks) |->
        [sec |-> SecOfEvent(ticks[i].ts_event), price |-> ScalePrice(sym, ticks[i].price)]]

\* positions of a frame that drop_duplicates("sec") keeps (keep="first")
KeptPositions(f) == {i \in 1..Len(f) : \A j \in 1..(i - 1) : f[j].sec # f[i].sec}

\* the subsequence of f at the positions in keep, in frame order
RECURSIVE Take(_, _, _)
Take(f, keep, i) ==
    IF i > Len(f) THEN <<>>
    ELSE (IF i \in keep THEN <<f[i]>> ELSE <<>>) \o Take(f, keep, i + 1)

DropDuplicates(f) == Take(f, KeptPositions(f), 1)

\* insertion of e after every element whose key is <= e's (stable)
RECURSIVE InsertBySec(_, _)
InsertBySec(s, e) ==
    IF s = <<>> THEN <<e>>
    ELSE IF s[Len(s)].sec <= e.sec THEN Append(s, e)
    ELSE Append(InsertBySec(SubSeq(s, 1, Len(s) - 1), e), s[Len(s)])

RECURSIVE SortValues(_)
SortValues(f) ==
    IF f = <<>> THEN <<>>
    ELSE InsertBySec(SortValues(SubSeq(f, 1, Len(f) - 1)), f[Len(f)])

\* .drop_duplicates("sec").sort_values("sec").set_index("sec")["price"]
\* a series sorted without dropping the duplicated seconds
BuildSeriesNoDedup(sym, ticks) == SortValues(SecFrame(sym, ticks))

BuildSeries(sym, ticks) == SortValues(DropDuplicates(SecFrame(sym, ticks)))

\* sorted(set(meeting_ids)) for a set of integer-coded meeting ids
RECURSIVE SortedSet(_)
SortedSet(S) ==
    IF S = {} THEN <<>>
    ELSE LET m == CHOOSE x \in S : \A y \in S : x <= y
         IN <<m>> \o SortedSet(S \ {m})

\* rets["meeting_id"].dropna().unique().tolist()
MeetingIdsOf(frame) == {frame[i].meeting_id : i \in DOMAIN frame}

\* a visiting order that comes back to every pair a second time
BuildOrderTwice(ids) ==
    LET ms == SortedSet(ids)
    IN [k \in 1..(2 * Len(ASSETS) * Len(ms)) |->
          <<ASSETS[(((k - 1) \div Len(ms)) % Len(ASSETS)) + 1], ms[((k - 1) % Len(ms)) + 1]>>]

\* the visiting order: for sym in ASSETS: for mtg in sorted(set(meeting_ids))
BuildOrder(ids) ==
    LET ms == SortedSet(ids)
    IN [k \in 1..(Len(ASSETS) * Len(ms)) |->
          <<ASSETS[((k - 1) \div Len(ms)) + 1], ms[((k - 1) % Len(ms)) + 1]>>]

----------------------------------------------------------------------------
(* run_horizon_sweep.py: add_forward_returns *)

\* sec_of(x) for a Timestamp: value // 1_000_000_000
sec_of(x) == x.sec + (x.ns \div NsPerSec)

\* a slice that leaves out the key t itself
LocUpToStrict(series, t) == SelectSeq(series, LAMBDA e : e.sec < t)

\* series.loc[:t]: the entries whose key is <= t (the index is sorted)
LocUpTo(series, t) == SelectSeq(series, LAMBDA e : e.sec <= t)

\* .iloc[0] in place of .iloc[-1]
AsOfFirst(series, t) ==
    LET s == LocUpTo(series, t)
    IN IF s = <<>> THEN NaN ELSE Num(s[1].price)

\* a lookup that fails once t is beyond the last key
AsOfNoCarry(series, t) ==
    LET s == LocUpTo(series, t)
    IN IF s = <<>> \/ t > series[Len(series)].sec THEN NaN ELSE Num(s[Len(s)].price)

\* series.loc[:t].iloc[-1]; NaN stands for the IndexError of an empty slice
AsOf(series, t) ==
    LET s == LocUpTo(series, t)
    IN IF s = <<>> THEN NaN ELSE Num(s[Len(s)].price)

\* a row loop that looks p1 up at t0, not at t0 + h
FwdCellAnchorOnly(r, pcache, h) ==
    LET key == <<r.meeting_id, r.sym>>
    IN IF key \notin DOMAIN pcache \/ r.timestamp_utc.nat THEN NaN
       ELSE LET t0 == sec_of(r.timestamp_utc)
                p0 == AsOf(pcache[key], t0)
                q1 == AsOf(pcache[key], t0)
                p1 == IF q1.nan THEN p0 ELSE q1
            IN IF p0.nan THEN NaN ELSE Num(p1.v - p0.v)

\* a row loop that writes 0 where p0 is missing instead of skipping the row
FwdCellZeroFill(r, pcache, h) ==
    LET key == <<r.meeting_id, r.sym>>
    IN IF key \notin DOMAIN pcache \/ r.timestamp_utc.nat THEN NaN
       ELSE LET t0 == sec_of(r.timestamp_utc)
                p0 == AsOf(pcache[key], t0)
                q1 == AsOf(pcache[key], t0 + h)
                p1 == IF q1.nan THEN p0 ELSE q1
            IN IF p0.nan THEN Num(0) ELSE Num(p1.v - p0.v)

\* the body of the row loop: the value stored in out, NaN when the row is skipped
FwdCell(r, pcache, h) ==
    LET key == <<r.meeting_id, r.sym>>
    IN IF key \notin DOMAIN pcache \/ r.timestamp_utc.nat THEN NaN
       ELSE LET t0 == sec_of(r.timestamp_utc)
                p0 == AsOf(pcache[key], t0)
                q1 == AsOf(pcache[key], t0 + h)
                p1 == IF q1.nan THEN p0 ELSE q1
            IN IF p0.nan THEN NaN ELSE Num(p1.v - p0.v)

\* numpy position of out[i] in an array of length n, 0 when out of bounds
NumpyPos(i, n) ==
    IF 0 <= i /\ i < n THEN i + 1
    ELSE IF -n <= i /\ i < 0 THEN n + i + 1
    ELSE 0

\* the row loop for one horizon, from row k on: out[i] = p1 - p0 per row
RECURSIVE FillColumn(_, _, _, _, _)
FillColumn(frame, pcache, h, k, out) ==
    IF k > Len(frame) THEN [err |-> FALSE, out |-> out]
    ELSE LET c == FwdCell(frame[k], pcache, h)
             p == NumpyPos(frame[k].label, Len(frame))
         IN IF c.nan THEN FillColumn(frame, pcache, h, k + 1, out)
            ELSE IF p = 0 THEN [err |-> TRUE, out |-> out]
            ELSE FillColumn(frame, pcache, h, k + 1, [out EXCEPT ![p] = c])

\* out = np.full(len(df), np.nan) followed by the row loop
Column(frame, pcache, h) ==
    FillColumn(frame, pcache, h, 1, [i \in 1..Len(frame) |-> NaN])

----------------------------------------------------------------------------
(* run_horizon_sweep.py: main() as a state machine *)

NoFile == [exists |-> FALSE, cols |-> FALSE, ticks |-> <<>>]
NoColumns == [exists |-> TRUE, cols |-> FALSE, ticks |-> <<>>]
TickFile(ticks) == [exists |-> TRUE, cols |-> TRUE, ticks |-> ticks]

\* cache[(mtg, sym)] = series
CachePut(pcache, key, series) ==
    [k \in DOMAIN pcache \cup {key} |-> IF k = key THEN series ELSE pcache[k]]

\* main, lines 187-189: the call of build_price_cache
StartBuild ==
    /\ pc = "main"
    /\ bq' = BuildOrder(MeetingIdsOf(rets))
    /\ cache' = <<>>
    /\ pc' = "build"
    /\ UNCHANGED <<store, rets, horizons, d_px, hi>>
    /\ UNCHANGED zq_vars
    /\ UNCHANGED <<w_vars, f_vars>>

\* glob_first(folder) is None: warn and continue
BuildNoTicks ==
    /\ pc = "build" /\ bq # <<>>
    /\ ~store[<<bq[1][2], bq[1][1]>>].exists
    /\ bq' = Tail(bq)
    /\ UNCHANGED <<store, rets, horizons, cache, d_px, hi, pc>>
    /\ UNCHANGED zq_vars
    /\ UNCHANGED <<w_vars, f_vars>>

\* ts_event or price missing from the file: warn and continue
BuildNoColumns ==
    /\ pc = "build" /\ bq # <<>>
    /\ store[<<bq[1][2], bq[1][1]>>].exists
    /\ ~store[<<bq[1][2], bq[1][1]>>].cols
    /\ bq' = Tail(bq)
    /\ UNCHANGED <<store, rets, horizons, cache, d_px, hi, pc>>
    /\ UNCHANGED zq_vars
    /\ UNCHANGED <<w_vars, f_vars>>

\* the series of one (sym, mtg) is built and stored
BuildStore ==
    /\ pc = "build" /\ bq # <<>>
    /\ store[<<bq[1][2], bq[1][1]>>].exists
    /\ store[<<bq[1][2], bq[1][1]>>].cols
    /\ cache' = CachePut(cache, <<bq[1][2], bq[1][1]>>,
                         BuildSeries(bq[1][1], store[<<bq[1][2], bq[1][1]>>].ticks))
    /\ bq' = Tail(bq)
    /\ UNCHANGED <<store, rets, horizons, d_px, hi, pc>>
    /\ UNCHANGED zq_vars
    /\ UNCHANGED <<w_vars, f_vars>>

\* build_price_cache returns; main calls add_forward_returns
BuildReturn ==
    /\ pc = "build" /\ bq = <<>>
    /\ pc' = "fwd"
    /\ hi' = 1
    /\ d_px' = <<>>
    /\ UNCHANGED <<store, rets, horizons, cache, bq>>
    /\ UNCHANGED zq_vars
    /\ UNCHANGED <<w_vars, f_vars>>

\* one pass of "for h in horizons": the row loop, then df[col] = out
FwdHorizon ==
    /\ pc = "fwd" /\ hi <= Len(horizons)
    /\ LET c == Column(rets, cache, horizons[hi])
       IN IF c.err
          THEN pc' = "crashed" /\ UNCHANGED <<d_px, hi>>
          ELSE d_px' = Append(d_px, c.out) /\ hi' = hi + 1 /\ pc' = pc
    /\ UNCHANGED <<store, rets, horizons, cache, bq>>
    /\ UNCHANGED zq_vars
    /\ UNCHANGED <<w_vars, f_vars>>

\* add_forward_returns returns df
FwdReturn ==
    /\ pc = "fwd" /\ hi > Len(horizons)
    /\ pc' = "done"
    /\ UNCHANGED <<store, rets, horizons, cache, bq, d_px, hi>>
    /\ UNCHANGED zq_vars
    /\ UNCHANGED <<w_vars, f_vars>>

Next ==
    \/ StartBuild
    \/ BuildNoTicks
    \/ BuildNoColumns
    \/ BuildStore
    \/ BuildReturn
    \/ FwdHorizon
    \/ FwdReturn

----------------------------------------------------------------------------
(* Inputs of the horizon sweep *)

MaxTicks == 3
MaxRows == 2

MeetingIds == {1, 2}
AssetSet == Range(ASSETS)

\* 14:19:59, 14:30:00, 14:30:00.5 and 14:40:01 UTC
EventTimes ==
    {[sec |-> 51599, ns |-> 0], [sec |-> 52200, ns |-> 0],
     [sec |-> 52200, ns |-> 500000000], [sec |-> 52801, ns |-> 0]}
RawPrices == {9998, 9995}

Symbol(sym) == IF sym = "ES" THEN <<"E", "S", "Z", "3">> ELSE <<"Z", "T", "Z", "3">>

TickSet(sym) ==
    {[ts_event |-> t, price |-> p, symbol |-> Symbol(sym)] : t \in EventTimes, p \in RawPrices}

SeqsUpTo(S, n) == UNION {[1..k -> S] : k \in 0..n}

\* 14:10:00, 14:30:00 and 14:36:40 UTC, or a missing timestamp
RowTimes == {NaT, Ts(51000, 0), Ts(52200, 0), Ts(52600, 0)}
BatchRowTimes == {NaT, Ts(52200, 0), Ts(52600, 500000000)}

ScenarioHorizons == <<0, 600, 3600>>

\* the series of the end-to-end scenario: 100.00, 99.98 and 99.95
ScenarioTicks(sym) ==
    LET q == IF sym = "ES" THEN 100 ELSE 1
    IN << [ts_event |-> [sec |-> 51599, ns |-> 0], price |-> 10000 * q, symbol |-> Symbol(sym)],
          [ts_event |-> [sec |-> 52200, ns |-> 0], price |-> 9998 * q, symbol |-> Symbol(sym)],
          [ts_event |-> [sec |-> 52801, ns |-> 0], price |-> 9995 * q, symbol |-> Symbol(sym)] >>

FileMenu(sym) == {NoFile, NoColumns, TickFile(ScenarioTicks(sym))}

\* a frame as read_parquet and merge leave it: a RangeIndex 0..n-1
Frame(rows) == [i \in 1..Len(rows) |->
    [label |-> i - 1, meeting_id |-> rows[i][1], sym |-> rows[i][2], timestamp_utc |-> rows[i][3]]]

\* build_zq_surprise.py does not run in a horizon sweep
ZqIdle ==
    /\ map_dates = <<>> /\ zq_files = <<>> /\ zq_todo = <<>> /\ zq_rows = <<>>
    /\ zq_pc = "idle"

\* no winsorization runs in a horizon sweep up to the forward returns, nor in
\* build_zq_surprise.py
WinsorIdle ==
    /\ w_script = "" /\ w_rows = <<>> /\ w_sigma = 0 /\ w_once = <<>> /\ w_twice = <<>>
    /\ w_pc = "idle"

\* no feature table is assembled in a horizon sweep up to the forward returns,
\* nor in build_zq_surprise.py
FeaturesIdle ==
    /\ f_script = "" /\ f_allowed = {} /\ f_segments = <<>> /\ f_returns = <<>>
    /\ f_joined = <<>> /\ f_features = <<>> /\ f_pc = "idle"

Started ==
    /\ cache = <<>> /\ bq = <<>> /\ d_px = <<>> /\ hi = 0 /\ pc = "main"
    /\ ZqIdle
    /\ WinsorIdle
    /\ FeaturesIdle

\* one meeting, one row, any tick file of at most MaxTicks ticks or the scenario's
InitSeries ==
    /\ \E s \in AssetSet, t \in RowTimes :
         rets = Frame(<< <<1, s, t>> >>)
    /\ \E tk \in SeqsUpTo(TickSet(rets[1].sym), MaxTicks) \cup {ScenarioTicks(rets[1].sym)},
          other \in {NoFile, NoColumns} :
         store = [k \in {1} \X AssetSet |->
                     IF k[2] = rets[1].sym THEN TickFile(tk) ELSE other]
    /\ horizons = ScenarioHorizons
    /\ Started

\* up to MaxRows rows over two meetings, every file drawn from the menu
InitBatch ==
    /\ \E rows \in SeqsUpTo(MeetingIds \X AssetSet \X BatchRowTimes, MaxRows) :
         rets = Frame(rows)
    /\ store \in [MeetingIdsOf(rets) \X AssetSet -> UNION {FileMenu(s) : s \in AssetSet}]
    /\ \A k \in DOMAIN store : store[k] \in FileMenu(k[2])
    /\ horizons = HORIZONS
    /\ Started

\* a calendar spread of the root, as a parent-symbol download holds it:
\* ESZ3-ESH4 or ZTZ3-ZTH4, traded at 0.25
SpreadSymbol(sym) ==
    IF sym = "ES" THEN <<"E", "S", "Z", "3", "-", "E", "S", "H", "4">>
    ELSE <<"Z", "T", "Z", "3", "-", "Z", "T", "H", "4">>

\* one meeting, one row at 14:30:00; a file of up to two ticks drawn from an
\* outright trade at 14:19:59 and a spread trade at 14:30:00
InitSpread ==
    /\ \E s \in AssetSet : rets = Frame(<< <<1, s, Ts(52200, 0)>> >>)
    /\ \E tk \in SeqsUpTo({[ts_event |-> [sec |-> 51599, ns |-> 0], price |-> 9998,
                              symbol |-> Symbol(rets[1].sym)],
                            [ts_event |-> [sec |-> 52200, ns |-> 0], price |-> 25,
                              symbol |-> SpreadSymbol(rets[1].sym)]}, 2) :
         store = [k \in {1} \X AssetSet |->
                     IF k[2] = rets[1].sym THEN TickFile(tk) ELSE NoFile]
    /\ horizons = ScenarioHorizons
    /\ Started

\* ticks of one pair that no other pair has: two trades whose prices depend on
\* the meeting and on the instrument
PairTicks(m, sym) ==
    LET p == IF sym = "ES" THEN 450000 + 100 * m ELSE 10200 + m
    IN << [ts_event |-> [sec |-> 51599, ns |-> 0], price |-> p, symbol |-> Symbol(sym)],
          [ts_event |-> [sec |-> 52500, ns |-> 0], price |-> p - 25, symbol |-> Symbol(sym)] >>

\* two rows over two meetings and two instruments, every pair with no file,
\* the scenario's file or a file of its own
InitPairs ==
    /\ \E r1, r2 \in MeetingIds \X AssetSet \X {Ts(52200, 0), Ts(52600, 500000000)} :
         rets = Frame(<<r1, r2>>)
    /\ store \in [MeetingIdsOf(rets) \X AssetSet ->
                     {NoFile} \cup {TickFile(ScenarioTicks(s)) : s \in AssetSet}
                         \cup {TickFile(PairTicks(m, s)) : m \in MeetingIds, s \in AssetSet}]
    /\ \A k \in DOMAIN store :
         store[k] \in {NoFile, TickFile(ScenarioTicks(k[2])), TickFile(PairTicks(k[1], k[2]))}
    /\ horizons = ScenarioHorizons
    /\ Started

Init == InitSeries \/ InitBatch \/ InitSpread \/ InitPairs

Spec == Init /\ [][Next]_vars

----------------------------------------------------------------------------
(* Properties of the horizon sweep *)

KeysOf(series) == {series[i].sec : i \in DOMAIN series}
PricesAt(series, k) == {series[i].price : i \in {j \in DOMAIN series : series[j].sec = k}}
MaxOf(S) == CHOOSE x \in S : \A y \in S : y <= x
KeysUpTo(series, t) == {k \in KeysOf(series) : k <= t}

\* the price at the largest key <= t, stated without the slice: a set with one
\* price, or the empty set when no key is <= t
PriceAsOf(series, t) ==
    IF KeysUpTo(series, t) = {} THEN {} ELSE PricesAt(series, MaxOf(KeysUpTo(series, t)))

RowKey(r) == <<r.meeting_id, r.sym>>

\* the seconds add_forward_returns asks a series for
QueryTimes ==
    {sec_of(rets[i].timestamp_utc) + horizons[j] :
        i \in {k \in DOMAIN rets : ~rets[k].timestamp_utc.nat}, j \in DOMAIN horizons}

ProbeTimes(series) == QueryTimes \cup UNION {{k - 1, k, k + 1} : k \in KeysOf(series)}

\* the row has a series and a timestamp, and a tick at or before t0
HasP0(r) ==
    /\ RowKey(r) \in DOMAIN cache
    /\ ~r.timestamp_utc.nat
    /\ KeysUpTo(cache[RowKey(r)], sec_of(r.timestamp_utc)) # {}

\* C1: for a cached series with keys t1 < ... < tn and a second t, the lookup
\* is unavailable when t < t1, gives price(tn) when t >= tn and price(ti) when
\* ti <= t < ti+1: the price at the largest key <= t.
C1_AsOfResolution ==
    \A key \in DOMAIN cache : \A t \in ProbeTimes(cache[key]) :
        LET series == cache[key]
            got == AsOf(series, t)
        IN /\ (\A k \in KeysOf(series) : t < k) => got = NaN
           /\ \A i \in DOMAIN series :
                (/\ series[i].sec <= t
                 /\ (i = Len(series) \/ t < series[i + 1].sec))
                => got = Num(series[i].price)
           /\ PriceAsOf(series, t) = (IF got.nan THEN {} ELSE {got.v})

\* a finished run that asked a three-key series for a second strictly between
\* two of its keys, and one that asked for a second before the first key
C1_Witness ==
    /\ pc = "done"
    /\ \E i \in DOMAIN rets, j \in DOMAIN horizons :
         /\ RowKey(rets[i]) \in DOMAIN cache
         /\ ~rets[i].timestamp_utc.nat
         /\ LET series == cache[RowKey(rets[i])]
                t == sec_of(rets[i].timestamp_utc) + horizons[j]
            IN /\ Len(series) = 3
               /\ series[2].sec < t /\ t < series[3].sec
               /\ ~d_px[j][i].nan

\* the ticks of a file that fall in epoch second k
TicksInSecond(ticks, k) == {i \in DOMAIN ticks : SecOfEvent(ticks[i].ts_event) = k}

\* the ticks of second k with the latest event time
LatestInSecond(ticks, k) ==
    {i \in TicksInSecond(ticks, k) :
        \A j \in TicksInSecond(ticks, k) : ticks[j].ts_event.ns <= ticks[i].ts_event.ns}

\* C2: when several ticks fall in one epoch second, the series holds for that
\* second the price of the tick with the latest event time, in any input order.
C2_DedupKeepsLatest ==
    \A key \in DOMAIN cache : \A i \in DOMAIN cache[key] :
        LET ticks == store[key].ticks
        IN cache[key][i].price \in
             {ScalePrice(key[2], ticks[n].price) : n \in LatestInSecond(ticks, cache[key][i].sec)}

\* C3: for every row whose p0 is available and every horizon h >= 0 the cell
\* d_px_h is price(t0 + h) - price(t0), price being the as-of resolution on the
\* row's series; horizon 0 gives 0; a cell depends on its own horizon only.
C3_ForwardReturnFormula ==
    \A j \in DOMAIN d_px : \A i \in DOMAIN rets :
        HasP0(rets[i]) =>
            LET series == cache[RowKey(rets[i])]
                t0 == sec_of(rets[i].timestamp_utc)
                h == horizons[j]
            IN /\ \E a \in PriceAsOf(series, t0), b \in PriceAsOf(series, t0 + h) :
                    d_px[j][i] = Num(b - a)
               /\ h = 0 => d_px[j][i] = Num(0)
               /\ d_px[j][i] = FwdCell(rets[i], cache, h)

\* a finished run with a cell that moved and the horizon-0 cell of the same row
C3_Witness ==
    /\ pc = "done"
    /\ \E i \in DOMAIN rets, j \in DOMAIN horizons, j0 \in DOMAIN horizons :
         /\ HasP0(rets[i])
         /\ horizons[j] > 0 /\ ~d_px[j][i].nan /\ d_px[j][i].v # 0
         /\ horizons[j0] = 0 /\ d_px[j0][i] = Num(0)

\* the series of the end-to-end scenario: 100.00 at 14:19:59, 99.98 at 14:30:00
\* and 99.95 at 14:40:01, in ten-thousandths
ScenarioSeries ==
    << [sec |-> 51599, price |-> 1000000], [sec |-> 52200, price |-> 999800],
       [sec |-> 52801, price |-> 999500] >>

\* row i is the scenario's: its series is the scenario's and its anchor 14:30:00
ScenarioRow(i) ==
    /\ pc = "done"
    /\ horizons = ScenarioHorizons
    /\ RowKey(rets[i]) \in DOMAIN cache
    /\ cache[RowKey(rets[i])] = ScenarioSeries
    /\ rets[i].timestamp_utc = Ts(52200, 0)

\* C4 as stated: in the scenario the forward return at horizon 600 is
\* 99.95 - 99.98 = -0.03.
C4_ScenarioAsClaimed ==
    \A i \in DOMAIN rets : ScenarioRow(i) => d_px[2][i] = Num(-300)

\* C4 as amended: in the scenario the forward return at horizon 600 is 0.00
\* (the price as of 14:40:00 is still 99.98), horizon 0 gives 0.00, and the
\* 99.95 tick of 14:40:01 shows at horizon 3600, which gives -0.03.
C4_ScenarioAsComputed ==
    \A i \in DOMAIN rets :
        ScenarioRow(i) =>
            /\ d_px[1][i] = Num(0)
            /\ d_px[2][i] = Num(0)
            /\ d_px[3][i] = Num(-300)

C4_Witness == \E i \in DOMAIN rets : ScenarioRow(i)

\* the last key of a series
LastKey(series) == series[Len(series)].sec

\* C5 as stated: with p0 available, a horizon whose t0 + h lies beyond the last
\* tick of the series yields price delta 0.
C5_BeyondLastTickIsZero ==
    pc = "done" =>
        \A j \in DOMAIN d_px : \A i \in DOMAIN rets :
            (HasP0(rets[i])
             /\ sec_of(rets[i].timestamp_utc) + horizons[j] > LastKey(cache[RowKey(rets[i])]))
            => d_px[j][i] = Num(0)

\* C5 as amended: with p0 available the lookup at t0 + h never fails for
\* h >= 0, so p1 = p0 is never substituted; a horizon beyond the last tick
\* yields price(tn) - p0, the last tick carried forward, which is 0 exactly
\* when the last tick's price equals p0, and every horizon of the row is
\* computed.
C5_BeyondLastTickCarriesLast ==
    pc = "done" =>
        \A j \in DOMAIN d_px : \A i \in DOMAIN rets :
            HasP0(rets[i]) =>
                LET series == cache[RowKey(rets[i])]
                    t0 == sec_of(rets[i].timestamp_utc)
                IN /\ ~AsOf(series, t0 + horizons[j]).nan
                   /\ ~d_px[j][i].nan
                   /\ t0 + horizons[j] >= LastKey(series) =>
                        \E a \in PriceAsOf(series, t0) :
                            /\ d_px[j][i] = Num(series[Len(series)].price - a)
                            /\ d_px[j][i] = Num(0) <=> series[Len(series)].price = a

\* a finished run with a horizon beyond the last tick whose cell is not zero
C5_Witness ==
    /\ pc = "done"
    /\ \E i \in DOMAIN rets, j \in DOMAIN horizons :
         /\ HasP0(rets[i])
         /\ sec_of(rets[i].timestamp_utc) + horizons[j] > LastKey(cache[RowKey(rets[i])])
         /\ ~d_px[j][i].nan /\ d_px[j][i].v # 0

\* price(t0) of a row is unavailable, read off the inputs: no readable tick
\* file for its (meeting, instrument), no timestamp, or no tick at or before t0
P0Unavailable(r) ==
    \/ RowKey(r) \notin DOMAIN store
    \/ ~store[RowKey(r)].exists
    \/ ~store[RowKey(r)].cols
    \/ r.timestamp_utc.nat
    \/ \A n \in DOMAIN store[RowKey(r)].ticks :
          SecOfEvent(store[RowKey(r)].ticks[n].ts_event) > sec_of(r.timestamp_utc)

\* C6: when price(t0) of a row is unavailable every horizon column of the row
\* is NaN, and the output keeps every row and every horizon column.
C6_UnavailableP0 ==
    pc = "done" =>
        /\ Len(d_px) = Len(horizons)
        /\ \A j \in DOMAIN d_px :
             /\ Len(d_px[j]) = Len(rets)
             /\ \A i \in DOMAIN rets : P0Unavailable(rets[i]) => d_px[j][i] = NaN

\* a finished run with a row without p0 beside a row with a computed cell
C6_Witness ==
    /\ pc = "done"
    /\ \E i \in DOMAIN rets, k \in DOMAIN rets :
         /\ P0Unavailable(rets[i]) /\ ~rets[i].timestamp_utc.nat
         /\ \A j \in DOMAIN horizons : d_px[j][i] = NaN
         /\ ~d_px[1][k].nan

----------------------------------------------------------------------------
(* build_zq_surprise.py: dates, symbols and the event time *)

\* event window (seconds)
PRE_SEC == 600
POST_SEC == 600
NsPerMilli == 1000000

MONTH_CODE == <<"F", "G", "H", "J", "K", "M", "N", "Q", "U", "V", "X", "Z">>
Digits == <<"0", "1", "2", "3", "4", "5", "6", "7", "8", "9">>
Letters ==
    {"A", "B", "C", "D", "E", "F", "G", "H", "I", "J", "K", "L", "M",
     "N", "O", "P", "Q", "R", "S", "T", "U", "V", "W", "X", "Y", "Z"}

\* a date, as datetime.strptime(day_iso, "%Y-%m-%d").date() reads it
Date(y, m, d) == [year |-> y, month |-> m, day |-> d]

\* order of the ISO strings YYYY-MM-DD, which is the order of the dates
DateLeq(a, b) ==
    \/ a.year < b.year
    \/ a.year = b.year /\ a.month < b.month
    \/ a.year = b.year /\ a.month = b.month /\ a.day <= b.day

IsLeap(y) == (y % 4 = 0 /\ y % 100 # 0) \/ y % 400 = 0

\* a month table that knows no leap year
DaysInMonthNoLeap(y, m) ==
    IF m = 2 THEN 28
    ELSE IF m \in {4, 6, 9, 11} THEN 30 ELSE 31

\* calendar.monthrange(year, month)[1]
DaysInMonth(y, m) ==
    IF m = 2 THEN (IF IsLeap(y) THEN 29 ELSE 28)
    ELSE IF m \in {4, 6, 9, 11} THEN 30 ELSE 31

\* day of the week, 0 for Sunday
DayOfWeek(y, m, d) ==
    LET t == <<0, 3, 2, 5, 0, 3, 5, 1, 4, 6, 2, 4>>
        yy == IF m < 3 THEN y - 1 ELSE y
    IN (yy + (yy \div 4) - (yy \div 100) + (yy \div 400) + t[m] + d) % 7

\* US/Eastern at 14:30 local is on daylight time from the second Sunday of
\* March to the day before the first Sunday of November (the rule since 2007)
IsDaylightTime(day) ==
    LET secondSundayMarch == CHOOSE d \in 8..14 : DayOfWeek(day.year, 3, d) = 0
        firstSundayNov == CHOOSE d \in 1..7 : DayOfWeek(day.year, 11, d) = 0
    IN \/ day.month > 3 /\ day.month < 11
       \/ day.month = 3 /\ day.day >= secondSundayMarch
       \/ day.month = 11 /\ day.day < firstSundayNov

\* 14:30 US/Eastern of the meeting day as a UTC instant
t0_utc_on_meeting_day(day) ==
    [sec |-> 14 * 3600 + 30 * 60 + (IF IsDaylightTime(day) THEN 4 ELSE 5) * 3600, ns |-> 0]

\* a symbol with the last two digits of the year
zq_symbol_two_digit_year(meeting_date) ==
    <<"Z", "Q", MONTH_CODE[meeting_date.month],
      Digits[((meeting_date.year % 100) \div 10) + 1], Digits[(meeting_date.year % 10) + 1]>>

\* f"ZQ{MONTH_CODE[m]}{y}" with y = year % 10
zq_symbol_for_meeting(meeting_date) ==
    <<"Z", "Q", MONTH_CODE[meeting_date.month], Digits[(meeting_date.year % 10) + 1]>>

\* a next month that stays in the year of the meeting
zq_next_month_same_year(meeting_date) ==
    LET m1 == meeting_date.month + 1
        m == IF m1 = 13 THEN 1 ELSE m1
    IN <<"Z", "Q", MONTH_CODE[m], Digits[(meeting_date.year % 10) + 1]>>

\* f"ZQ{MONTH_CODE[m]}{y % 10}" with m, y the month after the meeting's
zq_next_month_symbol(meeting_date) ==
    LET m1 == meeting_date.month + 1
        m == IF m1 = 13 THEN 1 ELSE m1
        y == IF m1 = 13 THEN meeting_date.year + 1 ELSE meeting_date.year
    IN <<"Z", "Q", MONTH_CODE[m], Digits[(y % 10) + 1]>>

\* t + pd.Timedelta(seconds=k)
TsAddSec(t, k) == [sec |-> t.sec + k, ns |-> t.ns]

\* t - pd.Timedelta(milliseconds=1)
TsSubMilli(t) ==
    IF t.ns >= NsPerMilli THEN [sec |-> t.sec, ns |-> t.ns - NsPerMilli]
    ELSE [sec |-> t.sec - 1, ns |-> t.ns + NsPerSec - NsPerMilli]

\* a <= b on instants
TsLeq(a, b) == a.sec < b.sec \/ (a.sec = b.sec /\ a.ns <= b.ns)

----------------------------------------------------------------------------
(* build_zq_surprise.py: read_ticks, last_price_in_window, compute_for_meeting *)

\* the characters \d matches in a str pattern: the decimal digits of Unicode;
\* "U+0663" (ARABIC-INDIC DIGIT THREE) stands for those outside ASCII
DecimalDigits == Range(Digits) \cup {"U+0663"}

\* symbol.str.match(r"^ZQ[A-Z]\d$", na=False), the pattern being run by re.match
\* on the str objects of the column: $ matches at the end of the string and
\* before a newline that ends it
MatchesSingleLeg(symbol) ==
    /\ Len(symbol) \in {4, 5}
    /\ symbol[1] = "Z" /\ symbol[2] = "Q"
    /\ symbol[3] \in Letters
    /\ symbol[4] \in DecimalDigits
    /\ Len(symbol) = 5 => symbol[5] = "\n"

\* the ticks are in time order
IsSortedByTs(s) == \A i \in 1..(Len(s) - 1) : TsLeq(s[i].ts_event, s[i + 1].ts_event)

\* df.sort_values("ts_event") with the default kind="quicksort", which is not
\* stable: the frames in time order that the sort of a build may return, the
\* ticks of one instant in any order
SortByTs(f) ==
    {s \in {[i \in 1..Len(f) |-> f[p[i]]] : p \in Permutations(1..Len(f))} : IsSortedByTs(s)}

\* read_ticks: the single-leg ticks of the day's parquet, sorted by ts_event;
\* the frames it may return
read_ticks(ticks) == SortByTs(SelectSeq(ticks, LAMBDA k : MatchesSingleLeg(k.symbol)))

\* sub.sort_index(): a monotonic index is left as it is, another one is sorted
sort_index(sub) == IF IsSortedByTs(sub) THEN {sub} ELSE SortByTs(sub)

\* a window that leaves out its last instant
last_price_before_end(series, start_ts, end_ts) ==
    LET s == SelectSeq(series, LAMBDA k : TsLeq(start_ts, k.ts_event) /\ TsLeq(k.ts_event, end_ts)
                                          /\ k.ts_event # end_ts)
    IN IF s = <<>> THEN NaN ELSE Num(s[Len(s)].price)

\* the last price in [start_ts, end_ts]; NaN stands for None
last_price_in_window(series, start_ts, end_ts) ==
    LET s == SelectSeq(series, LAMBDA k : TsLeq(start_ts, k.ts_event) /\ TsLeq(k.ts_event, end_ts))
    IN IF s = <<>> THEN NaN ELSE Num(s[Len(s)].price)

\* one pass of "for sym_try in (pri_sym, alt_sym)": the pre and post prices
\* of sym_try, found only when both exist; one outcome per order of sub
TryCandidate(df_day, sym_try, t0) ==
    {LET p_pre == last_price_in_window(sub, TsAddSec(t0, -PRE_SEC), TsSubMilli(t0))
         p_post == last_price_in_window(sub, t0, TsAddSec(t0, POST_SEC))
     IN [found |-> sub # <<>> /\ ~p_pre.nan /\ ~p_post.nan,
         sym |-> sym_try, p_pre |-> p_pre, p_post |-> p_post]
     : sub \in sort_index(SelectSeq(df_day, LAMBDA k : k.symbol = sym_try))}

\* a loop that prefers the next-month symbol
FirstFoundReversed(first, second) == IF second.found THEN second ELSE first

\* a loop that keeps the pre price of the first candidate when it falls back
\* to the second
FirstFoundMixed(first, second) ==
    IF first.found \/ first.p_pre.nan THEN (IF first.found THEN first ELSE second)
    ELSE [second EXCEPT !.p_pre = first.p_pre]

\* "for sym_try in (pri_sym, alt_sym)" with its break: the first candidate found
FirstFound(first, second) == IF first.found THEN first ELSE second

\* a record whose notes stay empty
NoNote == ""

None == <<>>
NoTradesNote == "no trades for meeting-month or next-month symbol in event window"

\* a float that is the quotient of two integers, den > 0
Ratio(n, d) == [nan |-> FALSE, num |-> n, den |-> d]
NaNRatio == [nan |-> TRUE, num |-> 0, den |-> 1]

\* a delta rounded to whole basis points before it is scaled
ScaleRoundedDelta(delta_bps, sf) ==
    IF sf.nan THEN NaNRatio
    ELSE Ratio((((delta_bps + 5000) \div 10000) * 10000) * sf.num, sf.den)

\* out["target_surprise_bps"] = delta_bps * sf, unless sf is None, nan or inf
ScaleDelta(delta_bps, sf) ==
    IF sf.nan THEN NaNRatio ELSE Ratio(delta_bps * sf.num, sf.den)

\* the dict compute_for_meeting returns when its loop over the candidates ends
\* with rec; prices and rates in ten-thousandths
RecordOf(day, rec) ==
    LET t0 == t0_utc_on_meeting_day(day)
        pri_sym == zq_symbol_for_meeting(day)
        alt_sym == zq_next_month_symbol(day)
        D == DaysInMonth(day.year, day.month)
        rem == D - day.day + 1
        sf == IF rem > 0 THEN Ratio(D, rem) ELSE NaNRatio
        out == [meeting_id |-> day,
                t0_utc |-> t0,
                primary_symbol |-> pri_sym,
                fallback_symbol |-> alt_sym,
                symbol_used |-> None,
                price_pre |-> NaN,
                price_post |-> NaN,
                implied_pre |-> NaN,
                implied_post |-> NaN,
                delta_implied_bps |-> NaN,
                days_in_month |-> D,
                days_remaining_after_announcement |-> rem,
                scaling_factor |-> sf,
                target_surprise_bps |-> NaNRatio,
                notes |-> ""]
    IN IF ~rec.found THEN [out EXCEPT !.notes = NoTradesNote]
       ELSE LET imp_pre == 100 * 10000 - rec.p_pre.v
                imp_post == 100 * 10000 - rec.p_post.v
                delta_bps == (imp_post - imp_pre) * 100
            IN [out EXCEPT !.symbol_used = rec.sym,
                           !.price_pre = rec.p_pre,
                           !.price_post = rec.p_post,
                           !.implied_pre = Num(imp_pre),
                           !.implied_post = Num(imp_post),
                           !.delta_implied_bps = Num(delta_bps),
                           !.target_surprise_bps = ScaleDelta(delta_bps, sf)]

\* compute_for_meeting(day_iso, df_day): the records it may return, one per
\* outcome of the candidates
compute_for_meeting(day, df_day) ==
    LET t0 == t0_utc_on_meeting_day(day)
    IN {RecordOf(day, FirstFound(first, second)) :
           first \in TryCandidate(df_day, zq_symbol_for_meeting(day), t0),
           second \in TryCandidate(df_day, zq_next_month_symbol(day), t0)}

----------------------------------------------------------------------------
(* build_zq_surprise.py: main() as a state machine *)

\* insertion of a date into a sorted list without the dates it already holds
RECURSIVE InsertDate(_, _)
InsertDate(s, d) ==
    IF s = <<>> THEN <<d>>
    ELSE IF s[Len(s)] = d THEN s
    ELSE IF DateLeq(s[Len(s)], d) THEN Append(s, d)
    ELSE Append(InsertDate(SubSeq(s, 1, Len(s) - 1), d), s[Len(s)])

\* sorted(m["meeting_date"].dropna().unique().tolist())
RECURSIVE SortedUnique(_)
SortedUnique(col) ==
    IF col = <<>> THEN <<>>
    ELSE InsertDate(SortedUnique(SubSeq(col, 1, Len(col) - 1)), col[Len(col)])

\* main, lines 177-183: the meeting list is loaded
ZqStart ==
    /\ zq_pc = "main"
    /\ zq_todo' = SortedUnique(map_dates)
    /\ zq_rows' = <<>>
    /\ zq_pc' = "loop"
    /\ UNCHANGED <<map_dates, zq_files>>
    /\ UNCHANGED sweep_vars
    /\ UNCHANGED <<w_vars, f_vars>>

\* a missing file that ends the run
ZqNotFoundAbort ==
    /\ zq_pc = "loop" /\ zq_todo # <<>>
    /\ zq_files[zq_todo[1]].status = "notfound"
    /\ zq_pc' = "aborted"
    /\ UNCHANGED <<map_dates, zq_files, zq_todo, zq_rows>>
    /\ UNCHANGED sweep_vars
    /\ UNCHANGED <<w_vars, f_vars>>

\* read_ticks raises FileNotFoundError: warn and continue
ZqNotFound ==
    /\ zq_pc = "loop" /\ zq_todo # <<>>
    /\ zq_files[zq_todo[1]].status = "notfound"
    /\ zq_todo' = Tail(zq_todo)
    /\ UNCHANGED <<map_dates, zq_files, zq_rows, zq_pc>>
    /\ UNCHANGED sweep_vars
    /\ UNCHANGED <<w_vars, f_vars>>

\* read_ticks raises another exception (a missing column, an unexpected
\* ts_event dtype): warn and continue
ZqReadFailed ==
    /\ zq_pc = "loop" /\ zq_todo # <<>>
    /\ zq_files[zq_todo[1]].status = "unreadable"
    /\ zq_todo' = Tail(zq_todo)
    /\ UNCHANGED <<map_dates, zq_files, zq_rows, zq_pc>>
    /\ UNCHANGED sweep_vars
    /\ UNCHANGED <<w_vars, f_vars>>

\* rec = compute_for_meeting(day, df_day); rows.append(rec)
ZqCompute ==
    /\ zq_pc = "loop" /\ zq_todo # <<>>
    /\ zq_files[zq_todo[1]].status = "ok"
    /\ \E df_day \in read_ticks(zq_files[zq_todo[1]].ticks) :
         \E rec \in compute_for_meeting(zq_todo[1], df_day) :
             zq_rows' = Append(zq_rows, rec)
    /\ zq_todo' = Tail(zq_todo)
    /\ UNCHANGED <<map_dates, zq_files, zq_pc>>
    /\ UNCHANGED sweep_vars
    /\ UNCHANGED <<w_vars, f_vars>>

\* the loop is over: rows are written to OUT_CSV
ZqWrite ==
    /\ zq_pc = "loop" /\ zq_todo = <<>>
    /\ zq_pc' = "done"
    /\ UNCHANGED <<map_dates, zq_files, zq_todo, zq_rows>>
    /\ UNCHANGED sweep_vars
    /\ UNCHANGED <<w_vars, f_vars>>

NextZQ ==
    \/ ZqStart
    \/ ZqNotFound
    \/ ZqReadFailed
    \/ ZqCompute
    \/ ZqWrite

----------------------------------------------------------------------------
(* Inputs of build_zq_surprise *)

MaxZqTicks == 3
MaxMeetings == 2

\* meetings: 2023-11-01 (ZQX3, ZQZ3), 2019-12-11 (December, end of a decade),
\* 2024-04-30 (last day of a 30-day month), 2024-05-01 (day 1 of a 31-day
\* month), 2024-01-31 (standard time, last day of a 31-day month)
ZqDates ==
    {Date(2023, 11, 1), Date(2019, 12, 11), Date(2024, 4, 30), Date(2024, 5, 1),
     Date(2024, 1, 31)}

Years == 2019..2024
AllDates ==
    {Date(y, m, d) : y \in Years, m \in 1..12, d \in 1..31} \cap
    {dt \in [year : Years, month : 1..12, day : 1..31] : dt.day <= DaysInMonth(dt.year, dt.month)}

ZqPrices == {946700, 946725}

ZqTick(t, sym, p) == [ts_event |-> t, symbol |-> sym, price |-> p]

\* instants around the two windows of a meeting: 1 ns before the pre window,
\* its first instant, its last instant (t0 - 1 ms), 1 ns before t0, t0, the
\* last instant of the post window and 1 ns after it
WindowInstants(day) ==
    LET t0 == t0_utc_on_meeting_day(day)
    IN {[sec |-> t0.sec - PRE_SEC - 1, ns |-> NsPerSec - 1],
        TsAddSec(t0, -PRE_SEC),
        TsSubMilli(t0),
        [sec |-> t0.sec - 1, ns |-> NsPerSec - 1],
        t0,
        TsAddSec(t0, POST_SEC),
        [sec |-> t0.sec + POST_SEC, ns |-> 1]}

ZqFile(ticks) == [status |-> "ok", ticks |-> ticks]
ZqMissing == [status |-> "notfound", ticks |-> <<>>]
ZqUnreadable == [status |-> "unreadable", ticks |-> <<>>]

SweepIdle ==
    /\ store = <<>> /\ rets = <<>> /\ horizons = <<>> /\ cache = <<>> /\ bq = <<>>
    /\ d_px = <<>> /\ hi = 0 /\ pc = "idle"

ZqStarted ==
    /\ zq_todo = <<>> /\ zq_rows = <<>> /\ zq_pc = "main"
    /\ SweepIdle
    /\ WinsorIdle
    /\ FeaturesIdle

OneFile(day, file) == [d \in {day} |-> file]

\* one meeting; up to MaxZqTicks ticks of the primary symbol, in any file
\* order, at the instants around the windows
InitZqWindows ==
    /\ \E day \in {Date(2023, 11, 1), Date(2024, 1, 31)} :
         /\ map_dates = <<day>>
         /\ \E tk \in SeqsUpTo({ZqTick(t, zq_symbol_for_meeting(day), p) :
                                   t \in WindowInstants(day), p \in ZqPrices}, MaxZqTicks) :
              zq_files = OneFile(day, ZqFile(tk))
    /\ ZqStarted

\* the ticks of one candidate: none, or one in the pre window, one in the
\* post window, or both, priced from ZqPrices
CandidateTicks(day, sym) ==
    LET t0 == t0_utc_on_meeting_day(day)
        pre == {<<>>} \cup {<<ZqTick(TsAddSec(t0, -300), sym, p)>> : p \in ZqPrices}
        post == {<<>>} \cup {<<ZqTick(TsAddSec(t0, 300), sym, p)>> : p \in ZqPrices}
    IN {a \o b : a \in pre, b \in post}

\* a calendar spread of the day, which read_ticks drops
SpreadTick(day) ==
    ZqTick(TsAddSec(t0_utc_on_meeting_day(day), -300),
           <<"Z", "Q", ":", "B", "F", " ", "F", "5", "-", "G", "5", "-", "J", "5">>, 25)

\* a trade whose symbol is the primary symbol followed by a newline, and one
\* whose symbol ends in a digit outside ASCII: read_ticks keeps both, and
\* neither equals a candidate symbol
NewlineTick(day) ==
    ZqTick(TsAddSec(t0_utc_on_meeting_day(day), -300),
           zq_symbol_for_meeting(day) \o <<"\n">>, 946750)
UnicodeDigitTick(day) ==
    ZqTick(TsAddSec(t0_utc_on_meeting_day(day), 300),
           SubSeq(zq_symbol_for_meeting(day), 1, 3) \o <<"U+0663">>, 946750)

\* one meeting of ZqDates; each candidate with or without a pre and a post tick
InitZqCandidates ==
    /\ \E day \in ZqDates :
         /\ map_dates = <<day>>
         /\ \E a \in CandidateTicks(day, zq_symbol_for_meeting(day)),
               b \in CandidateTicks(day, zq_next_month_symbol(day)),
               sp \in {<<>>, <<SpreadTick(day)>>, <<NewlineTick(day)>>,
                       <<UnicodeDigitTick(day)>>} :
              zq_files = OneFile(day, ZqFile(sp \o b \o a))
    /\ ZqStarted

\* the files a batch draws from: missing, unreadable, empty, trades of the
\* primary symbol in both windows, trades of the fallback symbol only
ZqFileMenu(day) ==
    LET t0 == t0_utc_on_meeting_day(day)
        both(sym) == <<ZqTick(TsAddSec(t0, -300), sym, 946700),
                       ZqTick(TsAddSec(t0, 300), sym, 946725)>>
    IN {ZqMissing, ZqUnreadable, ZqFile(<<>>),
        ZqFile(both(zq_symbol_for_meeting(day))),
        ZqFile(both(zq_next_month_symbol(day)))}

\* a meeting list of up to MaxMeetings rows, every file drawn from the menu
InitZqBatch ==
    /\ map_dates \in SeqsUpTo(ZqDates, MaxMeetings)
    /\ zq_files \in [Range(map_dates) -> UNION {ZqFileMenu(d) : d \in ZqDates}]
    /\ \A d \in DOMAIN zq_files : zq_files[d] \in ZqFileMenu(d)
    /\ ZqStarted

\* one meeting on any date of Years
InitZqCalendar ==
    /\ \E day \in AllDates :
         /\ map_dates = <<day>>
         /\ \E f \in {ZqMissing,
                      ZqFile(<<ZqTick(TsAddSec(t0_utc_on_meeting_day(day), -300),
                                      zq_symbol_for_meeting(day), 946700),
                               ZqTick(TsAddSec(t0_utc_on_meeting_day(day), 300),
                                      zq_symbol_for_meeting(day), 946725)>>)} :
              zq_files = OneFile(day, f)
    /\ ZqStarted

InitZQ == InitZqWindows \/ InitZqCandidates \/ InitZqBatch \/ InitZqCalendar

SpecZQ == InitZQ /\ [][NextZQ]_vars

----------------------------------------------------------------------------
(* Properties of build_zq_surprise *)

\* the two windows of a meeting, written out: [t0 - 10 min, t0 - 1 ms] and
\* [t0, t0 + 10 min], t0 being a whole second
InPreWindow(t, t0) ==
    /\ t.sec >= t0.sec - 600
    /\ t.sec < t0.sec
    /\ t.sec = t0.sec - 1 => t.ns <= 999000000

InPostWindow(t, t0) ==
    /\ t.sec >= t0.sec
    /\ t.sec < t0.sec + 600 \/ (t.sec = t0.sec + 600 /\ t.ns = 0)

\* the ticks of the day's file with symbol sym in the pre (post) window
PreTicks(day, sym) ==
    {k \in Range(zq_files[day].ticks) :
        k.symbol = sym /\ InPreWindow(k.ts_event, t0_utc_on_meeting_day(day))}
PostTicks(day, sym) ==
    {k \in Range(zq_files[day].ticks) :
        k.symbol = sym /\ InPostWindow(k.ts_event, t0_utc_on_meeting_day(day))}

HasBoth(day, sym) == PreTicks(day, sym) # {} /\ PostTicks(day, sym) # {}

\* the prices of the ticks of S with the latest event time
LatestPrices(S) ==
    {k.price : k \in {x \in S : \A y \in S : TsLeq(y.ts_event, x.ts_event)}}

ZqRows == Range(zq_rows)

\* C7: the primary symbol is used whenever it has a pre and a post trade; the
\* fallback symbol is used only when the primary lacks one and the fallback
\* has both, and then notes is empty; 2023-11-01 without in-window ZQX3 trades
\* and with ZQZ3 trades gives symbol_used = ZQZ3.
C7_CandidateOrder ==
    \A r \in ZqRows :
        LET day == r.meeting_id
            pri == zq_symbol_for_meeting(day)
            alt == zq_next_month_symbol(day)
        IN /\ r.primary_symbol = pri /\ r.fallback_symbol = alt
           /\ HasBoth(day, pri) => (r.symbol_used = pri /\ r.notes = "")
           /\ (~HasBoth(day, pri) /\ HasBoth(day, alt)) => (r.symbol_used = alt /\ r.notes = "")
           /\ r.symbol_used = alt => (~HasBoth(day, pri) /\ HasBoth(day, alt))
           /\ (day = Date(2023, 11, 1) /\ ~HasBoth(day, <<"Z", "Q", "X", "3">>)
               /\ HasBoth(day, <<"Z", "Q", "Z", "3">>))
              => (r.symbol_used = <<"Z", "Q", "Z", "3">> /\ r.notes = "")

\* 2023-11-01 with a ZQX3 trade in one window only and ZQZ3 trades in both
C7_Witness ==
    /\ zq_pc = "done"
    /\ \E r \in ZqRows :
         /\ r.meeting_id = Date(2023, 11, 1)
         /\ PreTicks(r.meeting_id, <<"Z", "Q", "X", "3">>) # {}
         /\ PostTicks(r.meeting_id, <<"Z", "Q", "X", "3">>) = {}
         /\ r.symbol_used = <<"Z", "Q", "Z", "3">>
         /\ r.notes = ""

\* C8: when neither candidate has both a pre and a post trade,
\* compute_for_meeting still returns a record; its symbol_used is None, its
\* prices, delta_implied_bps and target_surprise_bps are NaN and its notes
\* hold the "no trades" text.
C8_NoData ==
    zq_pc = "done" =>
        \A day \in Range(map_dates) :
            zq_files[day].status = "ok" =>
                /\ \E r \in ZqRows : r.meeting_id = day
                /\ \A r \in ZqRows :
                     (/\ r.meeting_id = day
                      /\ ~HasBoth(day, zq_symbol_for_meeting(day))
                      /\ ~HasBoth(day, zq_next_month_symbol(day)))
                     => /\ r.symbol_used = None
                        /\ r.price_pre = NaN /\ r.price_post = NaN
                        /\ r.delta_implied_bps = NaN
                        /\ r.target_surprise_bps.nan
                        /\ r.notes # ""
                        /\ r.notes = "no trades for meeting-month or next-month symbol in event window"

\* a meeting whose file holds a pre trade of the primary symbol and a post
\* trade of the fallback symbol, and no candidate with both
C8_Witness ==
    /\ zq_pc = "done"
    /\ \E r \in ZqRows :
         /\ PreTicks(r.meeting_id, r.primary_symbol) # {}
         /\ PostTicks(r.meeting_id, r.fallback_symbol) # {}
         /\ r.symbol_used = None
         /\ r.notes # ""

\* the outcomes of candidate sym on the frames read_ticks may return for the day
Candidates(day, sym) ==
    UNION {TryCandidate(df_day, sym, t0_utc_on_meeting_day(day)) :
              df_day \in read_ticks(zq_files[day].ticks)}

\* C9: the pre price of a candidate is the last trade with event time in
\* [t0 - 10 min, t0 - 1 ms], the post price the last trade in [t0, t0 + 10 min],
\* bounds included; a window without a trade gives no price; a trade outside a
\* window never determines its price.
C9_EventWindows ==
    \A day \in Range(map_dates) :
        zq_files[day].status = "ok" =>
            \A sym \in {zq_symbol_for_meeting(day), zq_next_month_symbol(day)} :
                /\ \A c \in Candidates(day, sym) :
                     /\ c.p_pre.nan <=> PreTicks(day, sym) = {}
                     /\ c.p_post.nan <=> PostTicks(day, sym) = {}
                     /\ ~c.p_pre.nan => c.p_pre.v \in LatestPrices(PreTicks(day, sym))
                     /\ ~c.p_post.nan => c.p_post.v \in LatestPrices(PostTicks(day, sym))
                /\ \A r \in ZqRows :
                     (r.meeting_id = day /\ r.symbol_used = sym)
                     => \E c \in Candidates(day, sym) :
                            r.price_pre = c.p_pre /\ r.price_post = c.p_post

\* a record whose pre price is the trade at t0 - 1 ms and whose post price is
\* the trade at t0 + 10 min, from a file with a trade outside both windows
C9_Witness ==
    /\ zq_pc = "done"
    /\ \E r \in ZqRows :
         LET day == r.meeting_id
             t0 == t0_utc_on_meeting_day(day)
             ticks == Range(zq_files[day].ticks)
         IN /\ r.symbol_used = r.primary_symbol
            /\ \E a \in ticks, b \in ticks, c \in ticks :
                 /\ a.ts_event = [sec |-> t0.sec - 1, ns |-> 999000000]
                 /\ b.ts_event = [sec |-> t0.sec + 600, ns |-> 0]
                 /\ ~InPreWindow(c.ts_event, t0) /\ ~InPostWindow(c.ts_event, t0)
                 /\ r.price_pre = Num(a.price) /\ r.price_post = Num(b.price)
                 /\ c.price # a.price

\* the length of a month from the table of month lengths
MonthLength(day) ==
    IF day.month = 2 /\ day.year % 4 = 0 /\ (day.year % 100 # 0 \/ day.year % 400 = 0)
    THEN 29
    ELSE <<31, 28, 31, 30, 31, 30, 31, 31, 30, 31, 30, 31>>[day.month]

\* C10: for a meeting on day d of a month of D days, days_remaining is
\* D - d + 1, which lies in 1..D, and scaling_factor is D / days_remaining, a
\* ratio of positive integers between 1 and D; the last day of a 30-day month
\* gives 1 and 30, day 1 of a 31-day month gives 31 and 1.
C10_CalendarScaling ==
    \A r \in ZqRows :
        LET day == r.meeting_id
            D == MonthLength(day)
            rem == r.days_remaining_after_announcement
            sf == r.scaling_factor
        IN /\ r.days_in_month = D
           /\ rem = D - day.day + 1
           /\ rem \in 1..D
           /\ ~sf.nan /\ sf.num = D /\ sf.den = rem
           /\ sf.den > 0 /\ sf.num > 0
           /\ sf.den <= sf.num /\ sf.num <= D * sf.den
           /\ (D = 30 /\ day.day = 30) => (rem = 1 /\ sf.num = 30 * sf.den)
           /\ (D = 31 /\ day.day = 1) => (rem = 31 /\ sf.num = sf.den)

\* a run over 2024-04-30 and 2024-05-01
C10_Witness ==
    /\ zq_pc = "done"
    /\ \E r1 \in ZqRows, r2 \in ZqRows :
         /\ r1.meeting_id = Date(2024, 4, 30)
         /\ r1.days_remaining_after_announcement = 1 /\ r1.scaling_factor = Ratio(30, 1)
         /\ r2.meeting_id = Date(2024, 5, 1)
         /\ r2.days_remaining_after_announcement = 31 /\ r2.scaling_factor = Ratio(31, 31)

\* C11: whenever a symbol is used, implied = 100 - price for both prices,
\* delta_implied_bps = (implied_post - implied_pre) * 100, which is
\* (price_pre - price_post) * 100, and target_surprise_bps is
\* delta_implied_bps * scaling_factor, the delta not being rounded first.
\* Prices and rates are in ten-thousandths, 100.0 being 1000000.
C11_SurpriseArithmetic ==
    \A r \in ZqRows :
        r.symbol_used # None =>
            LET D == MonthLength(r.meeting_id)
                rem == D - r.meeting_id.day + 1
            IN /\ ~r.price_pre.nan /\ ~r.price_post.nan
               /\ r.implied_pre = Num(1000000 - r.price_pre.v)
               /\ r.implied_post = Num(1000000 - r.price_post.v)
               /\ r.delta_implied_bps = Num((r.implied_post.v - r.implied_pre.v) * 100)
               /\ r.delta_implied_bps = Num((r.price_pre.v - r.price_post.v) * 100)
               /\ ~r.target_surprise_bps.nan
               /\ r.target_surprise_bps.den > 0
               /\ r.target_surprise_bps.num * rem
                      = r.delta_implied_bps.v * D * r.target_surprise_bps.den

\* 2019-12-11 (factor 31/21) with a quarter of a basis point between the prices
C11_Witness ==
    /\ zq_pc = "done"
    /\ \E r \in ZqRows :
         /\ r.meeting_id = Date(2019, 12, 11)
         /\ r.symbol_used # None
         /\ r.price_pre = Num(946725) /\ r.price_post = Num(946700)
         /\ r.delta_implied_bps = Num(2500)
         /\ r.target_surprise_bps = Ratio(2500 * 31, 21)

\* the date one calendar month later, the day clamped to the length of that
\* month (2024-01-31 gives 2024-02-29)
AddMonth(day) ==
    LET y == IF day.month = 12 THEN day.year + 1 ELSE day.year
        m == IF day.month = 12 THEN 1 ELSE day.month + 1
        len == MonthLength([year |-> y, month |-> m, day |-> 1])
    IN [year |-> y, month |-> m, day |-> IF day.day > len THEN len ELSE day.day]

\* C12: for every date, zq_next_month_symbol(date) is
\* zq_symbol_for_meeting(date advanced by one calendar month); from December
\* the month code is that of January and the year digit advances, 9 wrapping
\* to 0 (2019-12 gives ZQF0).
C12_NextMonthRoundTrip ==
    /\ \A day \in Range(map_dates) :
         /\ zq_next_month_symbol(day) = zq_symbol_for_meeting(AddMonth(day))
         /\ day.month = 12 =>
              /\ zq_next_month_symbol(day)[3] = "F"
              /\ zq_next_month_symbol(day)[4] = Digits[((day.year + 1) % 10) + 1]
         /\ (day.year = 2019 /\ day.month = 12) =>
              zq_next_month_symbol(day) = <<"Z", "Q", "F", "0">>
    /\ \A r \in ZqRows : r.fallback_symbol = zq_symbol_for_meeting(AddMonth(r.meeting_id))

\* the record of 2019-12-11, whose fallback symbol is ZQF0
C12_Witness ==
    /\ zq_pc = "done"
    /\ \E r \in ZqRows :
         /\ r.meeting_id = Date(2019, 12, 11)
         /\ r.primary_symbol = <<"Z", "Q", "Z", "9">>
         /\ r.fallback_symbol = <<"Z", "Q", "F", "0">>

\* the month codes of the futures calendar
MonthCodeOf(m) ==
    CASE m = 1 -> "F" [] m = 2 -> "G" [] m = 3 -> "H" [] m = 4 -> "J"
      [] m = 5 -> "K" [] m = 6 -> "M" [] m = 7 -> "N" [] m = 8 -> "Q"
      [] m = 9 -> "U" [] m = 10 -> "V" [] m = 11 -> "X" [] m = 12 -> "Z"

\* C13: for every date, zq_symbol_for_meeting is ZQ, the month code of the
\* table {1:F, ..., 12:Z} and the last digit of the year: four characters
\* that match ^ZQ[A-Z]\d$.
C13_PrimarySymbolFormat ==
    /\ \A day \in Range(map_dates) :
         LET sym == zq_symbol_for_meeting(day)
         IN /\ Len(sym) = 4
            /\ sym[1] = "Z" /\ sym[2] = "Q"
            /\ sym[3] = MonthCodeOf(day.month)
            /\ sym[4] = Digits[(day.year % 10) + 1]
            /\ sym[4] \in {"0", "1", "2", "3", "4", "5", "6", "7", "8", "9"}
            /\ MatchesSingleLeg(sym)
    /\ \A r \in ZqRows :
         /\ Len(r.primary_symbol) = 4
         /\ r.primary_symbol[3] = MonthCodeOf(r.meeting_id.month)
         /\ MatchesSingleLeg(r.primary_symbol)

\* the record of 2023-11-01, whose primary symbol ZQX3 is the one used
C13_Witness ==
    /\ zq_pc = "done"
    /\ \E r \in ZqRows :
         /\ r.meeting_id = Date(2023, 11, 1)
         /\ r.primary_symbol = <<"Z", "Q", "X", "3">>
         /\ r.symbol_used = r.primary_symbol

----------------------------------------------------------------------------
(* Properties of the price cache and of the batch loops *)

\* ^ES[A-Z]\d$ for root ES, ^ZT[A-Z]\d$ for root ZT
SingleLegOf(root, symbol) ==
    /\ Len(symbol) = 4
    /\ symbol[1] = (IF root = "ES" THEN "E" ELSE "Z")
    /\ symbol[2] = (IF root = "ES" THEN "S" ELSE "T")
    /\ symbol[3] \in Letters
    /\ symbol[4] \in Range(Digits)

\* the ticks of the file of key k = <<meeting, root>> that carry a single-leg
\* symbol of the root
SingleLegTicks(k) == {t \in Range(store[k].ticks) : SingleLegOf(k[2], t.symbol)}

\* C14: every price of a series comes from a tick whose symbol matches the
\* single-leg pattern of its root; a tick with a calendar-spread symbol never
\* contributes a price.  Stated for build_price_cache (ES, ZT); read_ticks
\* applies the ZQ pattern (MatchesSingleLeg).
C14_CacheOnlySingleLeg ==
    \A k \in DOMAIN cache :
        \A i \in DOMAIN cache[k] :
            \E t \in SingleLegTicks(k) :
                /\ SecOfEvent(t.ts_event) = cache[k][i].sec
                /\ ScalePrice(k[2], t.price) = cache[k][i].price

\* C15: every series stored by build_price_cache has strictly increasing
\* epoch-second keys, hence at most one price per key, for any tick order.
C15_StrictlyIncreasingKeys ==
    \A k \in DOMAIN cache :
        /\ \A i \in DOMAIN cache[k], j \in DOMAIN cache[k] :
             i < j => cache[k][i].sec < cache[k][j].sec
        /\ \A x \in KeysOf(cache[k]) : Cardinality(PricesAt(cache[k], x)) = 1
        /\ KeysOf(cache[k]) = {SecOfEvent(t.ts_event) : t \in Range(store[k].ticks)}

\* a series of two keys from a file that is out of time order and holds two
\* ticks of one second
C15_Witness ==
    \E k \in DOMAIN cache :
        LET tk == store[k].ticks
        IN /\ Len(tk) = 3 /\ Len(cache[k]) = 2
           /\ SecOfEvent(tk[1].ts_event) > SecOfEvent(tk[2].ts_event)
           /\ SecOfEvent(tk[3].ts_event) = SecOfEvent(tk[1].ts_event)
           /\ tk[3].price # tk[1].price

\* a run of either script
InitBatchRun == Init \/ InitZQ
NextBatchRun == Next \/ NextZQ
SpecBatchRun == InitBatchRun /\ [][NextBatchRun]_vars

\* every meeting whose ticks could be read has its record, in list order
ZqAllProcessed ==
    /\ \A day \in Range(map_dates) :
         zq_files[day].status = "ok" <=> (\E r \in ZqRows : r.meeting_id = day)
    /\ \A i \in DOMAIN zq_rows, j \in DOMAIN zq_rows :
         i < j => (zq_rows[i].meeting_id # zq_rows[j].meeting_id
                   /\ DateLeq(zq_rows[i].meeting_id, zq_rows[j].meeting_id))

\* every (meeting, instrument) whose file holds ticks has its series
CacheAllProcessed ==
    \A k \in DOMAIN store :
        (store[k].exists /\ store[k].cols)
        <=> (k \in DOMAIN cache /\ cache[k] = BuildSeries(k[2], store[k].ticks))

\* one step of the loop of build_zq_surprise main: the loop goes on to the
\* next meeting, with one more record exactly when the ticks could be read
ZqLoopGoesOn ==
    /\ zq_pc \in {"main", "loop"} => zq_pc' \in {"loop", "done"}
    /\ (zq_pc = "loop" /\ zq_todo # <<>>) =>
         /\ zq_pc' = "loop"
         /\ zq_todo' = Tail(zq_todo)
         /\ IF zq_files[zq_todo[1]].status = "ok"
            THEN /\ Len(zq_rows') = Len(zq_rows) + 1
                 /\ SubSeq(zq_rows', 1, Len(zq_rows)) = zq_rows
                 /\ zq_rows'[Len(zq_rows')].meeting_id = zq_todo[1]
            ELSE zq_rows' = zq_rows

\* one step of the loops of build_price_cache: the loops go on to the next
\* (instrument, meeting), with one more series exactly when the file has ticks
CacheLoopGoesOn ==
    /\ pc \in {"main", "build"} => pc' \in {"build", "fwd"}
    /\ (pc = "build" /\ bq # <<>>) =>
         LET k == <<bq[1][2], bq[1][1]>>
         IN /\ pc' = "build"
            /\ bq' = Tail(bq)
            /\ IF store[k].exists /\ store[k].cols
               THEN k \in DOMAIN cache' /\ DOMAIN cache' = DOMAIN cache \cup {k}
               ELSE cache' = cache

\* C16: whichever meetings lack ticks, and wherever they stand in the list,
\* the loop of build_zq_surprise main and the loops of build_price_cache never
\* abort: every step goes on to the next item, and at the end of the loop
\* every meeting or (meeting, instrument) that has ticks is in the output.
C16_SkipAndContinue ==
    /\ [][ZqLoopGoesOn /\ CacheLoopGoesOn]_vars
    /\ [](zq_pc = "done" => ZqAllProcessed)
    /\ [](pc \in {"fwd", "done"} => CacheAllProcessed)

\* a list of two meetings, the first without a file, the second with its record
C16_Witness ==
    /\ zq_pc = "done"
    /\ Len(map_dates) = 2
    /\ \E d1 \in Range(map_dates), d2 \in Range(map_dates) :
         /\ d1 # d2 /\ DateLeq(d1, d2)
         /\ zq_files[d1].status = "notfound"
         /\ zq_files[d2].status = "ok"
         /\ Len(zq_rows) = 1 /\ zq_rows[1].meeting_id = d2

\* C17: the table written by build_zq_surprise main holds exactly one row for
\* every distinct meeting date of the list, the meetings without ticks for
\* their day included.
C17_OneRowPerMeeting ==
    zq_pc = "done" =>
        /\ \A day \in Range(map_dates) :
             Cardinality({i \in DOMAIN zq_rows : zq_rows[i].meeting_id = day}) = 1
        /\ Len(zq_rows) = Cardinality(Range(map_dates))

\* a tick file that lacks ts_event or price
LacksColumns(k) == store[k].exists /\ ~store[k].cols

\* C18: a required column missing from an input aborts the run at once; the
\* input is not skipped.  For the tick files of build_price_cache: a run
\* whose meetings have a file without ts_event or price never goes on to the
\* forward returns.
C18_MissingColumnsFatal ==
    (\E k \in DOMAIN store : LacksColumns(k)) => pc \in {"main", "build", "aborted"}

----------------------------------------------------------------------------
(* Winsorization of the forward-return column: winsorize of                *)
(* run_horizon_sweep.py, run_clip_level_regression.py and                  *)
(* run_per_emotion_regressions.py, winsor of run_reg_with_zq.py            *)
(*                                                                         *)
(* A number of a column is v + b * c, where c >= 0 is the constant of the  *)
(* column, given by its square q = num / den, and v = 0 wherever b # 0.    *)
(* A column read from a returns table has b = 0 and q = 0.  A clipped      *)
(* column has cells v + b * c + k * cap, k in {-1, 0, 1}, where cap is     *)
(* sigma * std, given by its square (u + w * c) / (q.den * n2).  No square *)
(* root is ever rounded.                                                   *)

WINSOR_SIGMA == 3
W_SIGMA == 3

Cell(x) == [nan |-> FALSE, v |-> x, b |-> 0]
NaNCell == [nan |-> TRUE, v |-> 0, b |-> 0]
ZeroSquare == [num |-> 0, den |-> 1]
NoCap == [nan |-> TRUE, u |-> 0, w |-> 0, n2 |-> 1]

RECURSIVE SumSeq(_)
SumSeq(s) == IF s = <<>> THEN 0 ELSE s[1] + SumSeq(Tail(s))

RECURSIVE Gcd(_, _)
Gcd(a, b) == IF b = 0 THEN a ELSE Gcd(b, a % b)

\* a / b < c / d for a, c >= 0 and b, d > 0, by continued fractions
RECURSIVE FracLess(_, _, _, _)
FracLess(a, b, c, d) ==
    LET qa == a \div b
        qc == c \div d
        ra == a % b
        rc == c % d
    IN IF qa # qc THEN qa < qc
       ELSE IF rc = 0 THEN FALSE
       ELSE IF ra = 0 THEN TRUE
       ELSE FracLess(d, rc, b, ra)

\* P + R * sqrt(q) > 0
PositiveSurd(P, R, q) ==
    IF R = 0 \/ q.num = 0 THEN P > 0
    ELSE IF P >= 0 /\ R > 0 THEN TRUE
    ELSE IF P <= 0 /\ R < 0 THEN FALSE
    ELSE IF P > 0 THEN FracLess(q.num, q.den, P * P, R * R)
    ELSE FracLess(P * P, R * R, q.num, q.den)

\* s.std(skipna=True, ddof=ddof) squared and times sigma squared: the square
\* of cap = sigma * std; NaN when fewer than ddof + 1 values are present
CapSquared(s, sigma, ddof) ==
    LET xs == SelectSeq(s.cells, LAMBDA x : ~x.nan)
        n == Len(xs)
        A == SumSeq([i \in 1..n |-> xs[i].v])
        B == SumSeq([i \in 1..n |-> xs[i].b])
        C == SumSeq([i \in 1..n |-> xs[i].v * xs[i].v])
        D == SumSeq([i \in 1..n |-> xs[i].b * xs[i].b])
    IN IF n - ddof <= 0 THEN NoCap
       ELSE [nan |-> FALSE,
             u |-> sigma * sigma * ((n * C - A * A) * s.q.den + (n * D - B * B) * s.q.num),
             w |-> sigma * sigma * (-2) * A * B * s.q.den,
             n2 |-> n * (n - ddof)]

\* |x| > cap, that is x^2 > cap^2
BeyondCap(x, q, capsq) ==
    PositiveSurd((x.v * x.v * q.den + x.b * x.b * q.num) * capsq.n2 - capsq.u, -capsq.w, q)

\* x > 0
IsPositive(x, q) == x.v > 0 \/ (x.b > 0 /\ q.num > 0)

\* s.clip(-cap, cap); a NaN bound clips nothing, a NaN value stays NaN
Clip(s, capsq) ==
    [cells |-> [i \in DOMAIN s.cells |->
                  LET x == s.cells[i]
                  IN IF x.nan \/ capsq.nan \/ ~BeyondCap(x, s.q, capsq)
                     THEN [nan |-> x.nan, v |-> x.v, b |-> x.b, k |-> 0]
                     ELSE [nan |-> FALSE, v |-> 0, b |-> 0,
                           k |-> IF IsPositive(x, s.q) THEN 1 ELSE -1]],
     q |-> s.q,
     capsq |-> capsq]

\* run_horizon_sweep.py: s.astype("float64").clip(-cap, cap), cap = sigma * s.std(ddof=0)
winsorize(s, sigma) == Clip(s, CapSquared(s, sigma, 0))

\* run_reg_with_zq.py: cap = sigma * s.std(skipna=True), pandas' default ddof=1
winsor(s, sigma) == Clip(s, CapSquared(s, sigma, 1))

\* run_clip_level_regression.py: a copy of s unless sigma is non-zero (the
\* column is numeric)
winsorize_clip_level(s, sigma) ==
    IF sigma # 0 THEN Clip(s, CapSquared(s, sigma, 0)) ELSE Clip(s, NoCap)

\* run_per_emotion_regressions.py: s itself when sigma is zero
winsorize_per_emotion(s, sigma) ==
    IF sigma = 0 THEN Clip(s, NoCap) ELSE Clip(s, CapSquared(s, sigma, 0))

\* the column d_px of a table
RawColumn(rows) == [cells |-> [i \in DOMAIN rows |-> rows[i].d_px], q |-> ZeroSquare]

\* a clipped column with a rational cap, read as a column again: its cap
\* becomes the constant of the column
AsColumn(y) ==
    LET g == IF y.capsq.nan THEN 1 ELSE Gcd(y.capsq.u, y.q.den * y.capsq.n2)
    IN [cells |-> [i \in DOMAIN y.cells |->
                     [nan |-> y.cells[i].nan, v |-> y.cells[i].v, b |-> y.cells[i].k]],
        q |-> IF y.capsq.nan THEN ZeroSquare
              ELSE [num |-> y.capsq.u \div g, den |-> (y.q.den * y.capsq.n2) \div g]]

\* dfa = df.loc[df["sym"] == asset]
AssetRows(rows, asset) == SelectSeq(rows, LAMBDA r : r.sym = asset)

\* the winsorize function of a script and the sigma the script passes to it
ApplyWinsor(script, s, sigma) ==
    CASE script = "run_horizon_sweep" -> winsorize(s, sigma)
      [] script = "run_reg_with_zq" -> winsor(s, W_SIGMA)
      [] script = "run_clip_level_regression" -> winsorize_clip_level(s, sigma)
      [] script = "run_per_emotion_regressions" -> winsorize_per_emotion(s, sigma)

\* run_regressions(df, asset, horizons, winsor_sigma), called for each asset:
\* dfa[f"y{h}"] = winsorize(yraw, winsor_sigma)
WinsorizeHorizonSweep ==
    /\ w_pc = "start" /\ w_script = "run_horizon_sweep"
    /\ w_once' = [a \in Range(ASSETS) |->
                    winsorize(RawColumn(AssetRows(w_rows, a)), w_sigma)]
    /\ w_pc' = "once"
    /\ UNCHANGED <<w_script, w_rows, w_sigma, w_twice>>
    /\ UNCHANGED <<sweep_vars, zq_vars, f_vars>>

\* returns["d_px_60_w"] = winsor(returns["d_px_60"])
WinsorRegWithZq ==
    /\ w_pc = "start" /\ w_script = "run_reg_with_zq"
    /\ w_once' = [g \in {"all"} |-> winsor(RawColumn(w_rows), W_SIGMA)]
    /\ w_pc' = "once"
    /\ UNCHANGED <<w_script, w_rows, w_sigma, w_twice>>
    /\ UNCHANGED <<sweep_vars, zq_vars, f_vars>>

\* y = winsorize(returns["d_px_60"], args.winsor_sigma)
WinsorizeClipLevel ==
    /\ w_pc = "start" /\ w_script = "run_clip_level_regression"
    /\ w_once' = [g \in {"all"} |-> winsorize_clip_level(RawColumn(w_rows), w_sigma)]
    /\ w_pc' = "once"
    /\ UNCHANGED <<w_script, w_rows, w_sigma, w_twice>>
    /\ UNCHANGED <<sweep_vars, zq_vars, f_vars>>

\* returns["d_px_60_w"] = winsorize(returns["d_px_60"], args.winsor_sigma)
WinsorizePerEmotion ==
    /\ w_pc = "start" /\ w_script = "run_per_emotion_regressions"
    /\ w_once' = [g \in {"all"} |-> winsorize_per_emotion(RawColumn(w_rows), w_sigma)]
    /\ w_pc' = "once"
    /\ UNCHANGED <<w_script, w_rows, w_sigma, w_twice>>
    /\ UNCHANGED <<sweep_vars, zq_vars, f_vars>>

\* the function of the script applied to its own result, with the same sigma
WinsorizeAgain ==
    /\ w_pc = "once"
    /\ w_twice' = [g \in DOMAIN w_once |-> ApplyWinsor(w_script, AsColumn(w_once[g]), w_sigma)]
    /\ w_pc' = "twice"
    /\ UNCHANGED <<w_script, w_rows, w_sigma, w_once>>
    /\ UNCHANGED <<sweep_vars, zq_vars, f_vars>>

NextWinsor ==
    \/ WinsorizeHorizonSweep
    \/ WinsorRegWithZq
    \/ WinsorizeClipLevel
    \/ WinsorizePerEmotion
    \/ WinsorizeAgain

----------------------------------------------------------------------------
(* Inputs of the winsorization *)

MaxWinsorRows == 3

\* forward returns -3, 0, 2 and 3, or a missing return
ReturnCells == {NaNCell} \cup {Cell(x) : x \in {-3, 0, 2, 3}}

\* winsor_sigma / --winsor-sigma: 0, 1, 2 or the default 3 (WINSOR_SIGMA)
SigmaArgs == {0, 1, 2, WINSOR_SIGMA}

InitWinsor ==
    /\ w_script \in {"run_horizon_sweep", "run_reg_with_zq", "run_clip_level_regression",
                     "run_per_emotion_regressions"}
    /\ w_rows \in SeqsUpTo([sym : AssetSet, d_px : ReturnCells], MaxWinsorRows)
    /\ w_sigma \in SigmaArgs
    /\ w_script = "run_reg_with_zq" => w_sigma = W_SIGMA
    /\ w_once = <<>> /\ w_twice = <<>> /\ w_pc = "start"
    /\ SweepIdle
    /\ ZqIdle
    /\ FeaturesIdle

SpecWinsor == InitWinsor /\ [][NextWinsor]_vars

----------------------------------------------------------------------------
(* Properties of the winsorization *)

\* the returns present in the full column, all instruments together
PresentReturns == SelectSeq(w_rows, LAMBDA r : ~r.d_px.nan)

\* n^2 times the population variance of the full column: n * sum(x^2) - sum(x)^2
FullColumnSpread ==
    LET n == Len(PresentReturns)
    IN n * SumSeq([i \in 1..n |-> PresentReturns[i].d_px.v * PresentReturns[i].d_px.v])
       - SumSeq([i \in 1..n |-> PresentReturns[i].d_px.v])
         * SumSeq([i \in 1..n |-> PresentReturns[i].d_px.v])

\* x lies outside [-sigma * sd, +sigma * sd], sd the population standard
\* deviation of the full column: x^2 * n^2 > sigma^2 * n^2 * sd^2
OutsideBand(x) ==
    x * x * Len(PresentReturns) * Len(PresentReturns) > w_sigma * w_sigma * FullColumnSpread

\* the cell of row i in the winsorized column, and the cap of that column
GroupOf(i) == IF w_script = "run_horizon_sweep" THEN w_rows[i].sym ELSE "all"
PlaceOf(i) ==
    IF w_script = "run_horizon_sweep"
    THEN Cardinality({j \in 1..i : w_rows[j].sym = w_rows[i].sym})
    ELSE i
OnceCell(i) == w_once[GroupOf(i)].cells[PlaceOf(i)]
OnceCap(i) == w_once[GroupOf(i)].capsq

\* C19: each winsorize / winsor function, with a positive sigma, replaces a
\* value outside [-sigma * sd, +sigma * sd] by the nearer bound and leaves a
\* value inside unchanged, sd being the population standard deviation
\* (divisor n) of the full column across all instruments.
C19_WinsorizeFullColumnPopulationSd ==
    (w_pc \in {"once", "twice"} /\ w_sigma > 0) =>
        \A i \in DOMAIN w_rows :
            LET x == w_rows[i].d_px
                n == Len(PresentReturns)
            IN ~x.nan =>
                 IF OutsideBand(x.v)
                 THEN /\ OnceCell(i).k = (IF x.v > 0 THEN 1 ELSE -1)
                      /\ ~OnceCap(i).nan
                      /\ OnceCap(i).w = 0
                      /\ OnceCap(i).u * n * n
                             = w_sigma * w_sigma * FullColumnSpread * OnceCap(i).n2
                 ELSE OnceCell(i).k = 0 /\ OnceCell(i).v = x.v

\* C20: for every column and every sigma, winsorize applied twice with the
\* same sigma gives the column that winsorize applied once gives: the second
\* application clips no cell.
C20_WinsorizeIdempotent ==
    w_pc = "twice" =>
        \A g \in DOMAIN w_twice :
            \A i \in DOMAIN w_twice[g].cells : w_twice[g].cells[i].k = 0

\* C21: with sigma = 0 every winsorize function returns the column
\* unchanged, for every input column.
C21_SigmaZeroDisables ==
    (/\ w_pc \in {"once", "twice"}
     /\ w_sigma = 0
     /\ w_script \in {"run_horizon_sweep", "run_clip_level_regression",
                      "run_per_emotion_regressions"})
    => \A i \in DOMAIN w_rows :
           /\ OnceCell(i).k = 0
           /\ OnceCell(i).nan = w_rows[i].d_px.nan
           /\ OnceCell(i).v = w_rows[i].d_px.v

----------------------------------------------------------------------------
(* Feature assembly: the label join and the emotion indicators of          *)
(* run_horizon_sweep.py, run_reg_with_zq.py and                            *)
(* run_per_emotion_regressions.py                                          *)
(*                                                                         *)
(* A table is [error, columns, rows]: rows is the sequence of its rows in  *)
(* order, each a function from the table's column names to values.  A      *)
(* missing value of a text column (NaN) is the string "NaN".  The columns  *)
(* timestamp_utc, d_px_60 and pre_px_60 are carried along unread by the    *)
(* join and the indicators and are left out.                               *)

Table(cols, rows) == [error |-> FALSE, columns |-> cols, rows |-> rows]

\* pandas.errors.MergeError raised by validate=...
MergeError == [error |-> TRUE, columns |-> {}, rows |-> <<>>]

\* df[[c1, c2, ...]]
Project(t, cols) ==
    Table(cols, [i \in DOMAIN t.rows |-> [c \in cols |-> t.rows[i][c]]])

\* .str.lower() of one label; a missing value stays missing
Lower(l) ==
    IF l = "Happy" THEN "happy" ELSE l

\* .astype(str) of one label: a missing value becomes the text "nan"
AsStr(l) == IF l = "NaN" THEN "nan" ELSE l

\* .astype(str).str.lower().str.strip(); no label read has blanks around it
Clean(l) == Lower(AsStr(l))

\* seg["emotion"] = seg["emotion"].str.lower()
LowerEmotion(t) ==
    Table(t.columns,
          [i \in DOMAIN t.rows |->
              [c \in t.columns |->
                  IF c = "emotion" THEN Lower(t.rows[i][c]) ELSE t.rows[i][c]]])

\* segments["emotion"] = segments["emotion"].astype(str).str.lower().str.strip()
CleanEmotion(t) ==
    Table(t.columns,
          [i \in DOMAIN t.rows |->
              [c \in t.columns |->
                  IF c = "emotion" THEN Clean(t.rows[i][c]) ELSE t.rows[i][c]]])

KeyOf(r, on) == [c \in on |-> r[c]]

UniqueKeys(t, on) ==
    \A i, j \in DOMAIN t.rows : KeyOf(t.rows[i], on) = KeyOf(t.rows[j], on) => i = j

\* drop_duplicates(subset=on, keep="last")
DropDuplicatesKeepLast(t, on) ==
    LET kept == {i \in DOMAIN t.rows :
                    \A j \in DOMAIN t.rows :
                        KeyOf(t.rows[j], on) = KeyOf(t.rows[i], on) => j <= i}
    IN Table(t.columns, Take(t.rows, kept, 1))

\* the name a column of one side gets in the merged table
Suffixed(c, overlap, sfx) == IF c \in overlap THEN c \o sfx ELSE c

\* one merged row: the left row with the right row's other columns (missing
\* when right = <<>>, the left row having no match)
MergedRow(l, r, lcols, rcols, on) ==
    LET overlap == (lcols \cap rcols) \ on
        outcols == {Suffixed(c, overlap, "_x") : c \in lcols}
                       \cup {Suffixed(c, overlap, "_y") : c \in rcols \ on}
    IN [c \in outcols |->
           IF \E lc \in lcols : Suffixed(lc, overlap, "_x") = c
           THEN l[CHOOSE lc \in lcols : Suffixed(lc, overlap, "_x") = c]
           ELSE LET rc == CHOOSE x \in rcols \ on : Suffixed(x, overlap, "_y") = c
                IN IF r = <<>> THEN "NaN" ELSE r[rc]]

\* the rows of a left join, from left row i on: each left row once per matching
\* right row, in the right table's order, or once with missing values
RECURSIVE LeftJoinRows(_, _, _, _)
LeftJoinRows(left, right, on, i) ==
    IF i > Len(left.rows) THEN <<>>
    ELSE LET l == left.rows[i]
             hits == SelectSeq(right.rows, LAMBDA r : KeyOf(r, on) = KeyOf(l, on))
             mine == IF hits = <<>>
                     THEN << MergedRow(l, <<>>, left.columns, right.columns, on) >>
                     ELSE [k \in DOMAIN hits |->
                              MergedRow(l, hits[k], left.columns, right.columns, on)]
         IN mine \o LeftJoinRows(left, right, on, i + 1)

\* left.merge(right, on=on, how="left", validate=validate)
merge(left, right, on, validate) ==
    IF validate = "one_to_one" /\ ~UniqueKeys(left, on) THEN MergeError
    ELSE IF validate \in {"one_to_one", "many_to_one"} /\ ~UniqueKeys(right, on)
    THEN MergeError
    ELSE LET overlap == (left.columns \cap right.columns) \ on
         IN Table({Suffixed(c, overlap, "_x") : c \in left.columns}
                      \cup {Suffixed(c, overlap, "_y") : c \in right.columns \ on},
                  LeftJoinRows(left, right, on, 1))

JoinKey == {"meeting_id", "segment_id"}

HasMissingEmotion(t) == \E i \in DOMAIN t.rows : t.rows[i]["emotion"] = "NaN"

\* run_horizon_sweep.main: the segments are projected, lowered and made unique
\* by key; the join runs when the returns have no label or a missing one
JoinHorizonSweep ==
    /\ f_script = "run_horizon_sweep" /\ f_pc = "start"
    /\ LET seg == DropDuplicatesKeepLast(
                      LowerEmotion(Project(f_segments, JoinKey \cup {"emotion"})),
                      JoinKey)
           out == IF "emotion" \notin f_returns.columns \/ HasMissingEmotion(f_returns)
                  THEN merge(f_returns, seg, JoinKey, "many_to_one")
                  ELSE f_returns
       IN /\ f_joined' = out
          /\ f_pc' = IF out.error THEN "merge_error" ELSE "joined"
    /\ UNCHANGED <<f_script, f_allowed, f_segments, f_returns, f_features>>
    /\ UNCHANGED <<sweep_vars, zq_vars, w_vars>>

\* run_reg_with_zq.main: the returns have no video_id, so the join is on
\* (meeting_id, segment_id); the merge is validated one_to_one
JoinRegWithZq ==
    /\ f_script = "run_reg_with_zq" /\ f_pc = "start"
    /\ LET segments == LowerEmotion(f_segments)
           on_cols == {c \in {"meeting_id", "video_id", "segment_id"} :
                          c \in f_returns.columns}
           on == IF "video_id" \notin on_cols /\ "segment_id" \in on_cols
                 THEN JoinKey ELSE on_cols
           out == IF "emotion" \notin f_returns.columns
                  THEN merge(f_returns, segments, on, "one_to_one")
                  ELSE f_returns
       IN /\ f_joined' = out
          /\ f_pc' = IF out.error THEN "merge_error" ELSE "joined"
    /\ UNCHANGED <<f_script, f_allowed, f_segments, f_returns, f_features>>
    /\ UNCHANGED <<sweep_vars, zq_vars, w_vars>>

\* run_per_emotion_regressions.main: the labels are cleaned, the join runs when
\* the returns have no label column, and the joined labels are cleaned again
JoinPerEmotion ==
    /\ f_script = "run_per_emotion_regressions" /\ f_pc = "start"
    /\ LET segments == CleanEmotion(f_segments)
           out == IF "emotion" \notin f_returns.columns
                  THEN merge(f_returns, Project(segments, JoinKey \cup {"emotion"}),
                             JoinKey, "many_to_one")
                  ELSE f_returns
       IN /\ f_joined' = IF out.error THEN out ELSE CleanEmotion(out)
          /\ f_pc' = IF out.error THEN "merge_error" ELSE "joined"
    /\ UNCHANGED <<f_script, f_allowed, f_segments, f_returns, f_features>>
    /\ UNCHANGED <<sweep_vars, zq_vars, w_vars>>

\* (label == emo).astype(int) for the three emotions; neutral has no column
Indicators(label) ==
    [emo_happy |-> IF label = "happy" THEN 1 ELSE 0,
     emo_surprise |-> IF label = "surprise" THEN 1 ELSE 0,
     emo_anxious |-> IF label = "anxious" THEN 1 ELSE 0]

\* a feature row: the joined row, the label the indicators were made from, and
\* the indicators
FeatureRow(r, label) == [row |-> r, label |-> label, emo |-> Indicators(label)]

\* run_regressions of run_horizon_sweep.py, asset after asset: dfa["emotion"]
\* is a KeyError when the join left emotion_x and emotion_y instead
IndicatorsHorizonSweep ==
    /\ f_script = "run_horizon_sweep" /\ f_pc = "joined"
    /\ IF "emotion" \notin f_joined.columns
       THEN f_pc' = "key_error" /\ UNCHANGED f_features
       ELSE LET dfa(asset) == SelectSeq(f_joined.rows, LAMBDA r : r["sym"] = asset)
                feat(asset) == [i \in DOMAIN dfa(asset) |->
                                   FeatureRow(dfa(asset)[i], Lower(dfa(asset)[i]["emotion"]))]
            IN /\ f_features' = feat(ASSETS[1]) \o feat(ASSETS[2])
               /\ f_pc' = "features"
    /\ UNCHANGED <<f_script, f_allowed, f_segments, f_returns, f_joined>>
    /\ UNCHANGED <<sweep_vars, zq_vars, w_vars>>

\* run_reg_with_zq.main: emo = returns["emotion"].astype(str).str.lower()
IndicatorsRegWithZq ==
    /\ f_script = "run_reg_with_zq" /\ f_pc = "joined"
    /\ f_features' = [i \in DOMAIN f_joined.rows |->
                         FeatureRow(f_joined.rows[i], Lower(AsStr(f_joined.rows[i]["emotion"])))]
    /\ f_pc' = "features"
    /\ UNCHANGED <<f_script, f_allowed, f_segments, f_returns, f_joined>>
    /\ UNCHANGED <<sweep_vars, zq_vars, w_vars>>

\* run_per_emotion_regressions.main: only the rows with an allowed label are
\* kept, then the indicators are made
IndicatorsPerEmotion ==
    /\ f_script = "run_per_emotion_regressions" /\ f_pc = "joined"
    /\ LET kept == SelectSeq(f_joined.rows, LAMBDA r : r["emotion"] \in f_allowed)
       IN f_features' = [i \in DOMAIN kept |-> FeatureRow(kept[i], kept[i]["emotion"])]
    /\ f_pc' = "features"
    /\ UNCHANGED <<f_script, f_allowed, f_segments, f_returns, f_joined>>
    /\ UNCHANGED <<sweep_vars, zq_vars, w_vars>>

NextFeatures ==
    \/ JoinHorizonSweep
    \/ JoinRegWithZq
    \/ JoinPerEmotion
    \/ IndicatorsHorizonSweep
    \/ IndicatorsRegWithZq
    \/ IndicatorsPerEmotion

----------------------------------------------------------------------------
(* Inputs of the feature assembly *)

MaxSegments == 2
MaxFeatureRows == 2

\* segments 1 and 2 of meeting 1
SegmentKeys == {<<1, 1>>, <<1, 2>>}

\* the labels of the classifier as written in the tables, a label outside the
\* four of the regressions, and a missing label
Labels == {"neutral", "happy", "surprise", "anxious", "sad", "Happy", "NaN"}

\* --allowed-labels: the default, or the default with one more label
DefaultAllowed == {"neutral", "happy", "surprise", "anxious"}
AllowedArgs == {DefaultAllowed, DefaultAllowed \cup {"sad"}}

\* a row of the segments table; the video is the meeting's
SegmentRow(k, l) ==
    [c \in {"meeting_id", "video_id", "segment_id", "emotion"} |->
        CASE c = "meeting_id" -> k[1]
          [] c = "video_id" -> k[1]
          [] c = "segment_id" -> k[2]
          [] OTHER -> l]

\* a row of a returns table without labels, and one of a table with labels
ReturnRow(k, s) ==
    [c \in {"meeting_id", "segment_id", "sym"} |->
        CASE c = "meeting_id" -> k[1]
          [] c = "segment_id" -> k[2]
          [] OTHER -> s]

LabelledRow(k, s, l) ==
    [c \in {"meeting_id", "segment_id", "sym", "emotion"} |->
        CASE c = "meeting_id" -> k[1]
          [] c = "segment_id" -> k[2]
          [] c = "sym" -> s
          [] OTHER -> l]

FeaturesStarted ==
    /\ f_script \in {"run_horizon_sweep", "run_reg_with_zq", "run_per_emotion_regressions"}
    /\ f_allowed \in AllowedArgs
    /\ f_script # "run_per_emotion_regressions" => f_allowed = DefaultAllowed
    /\ f_joined = <<>> /\ f_features = <<>> /\ f_pc = "start"
    /\ SweepIdle
    /\ ZqIdle
    /\ WinsorIdle

\* returns without a label column, one row per (segment, instrument) at most,
\* and any segments table of at most MaxSegments rows
InitJoin ==
    /\ \E rows \in SeqsUpTo({SegmentRow(k, l) : k \in SegmentKeys, l \in Labels}, MaxSegments) :
         f_segments = Table({"meeting_id", "video_id", "segment_id", "emotion"}, rows)
    /\ \E rows \in SeqsUpTo({ReturnRow(k, s) : k \in SegmentKeys, s \in AssetSet},
                            MaxFeatureRows) :
         /\ f_returns = Table({"meeting_id", "segment_id", "sym"}, rows)
         /\ UniqueKeys(f_returns, JoinKey \cup {"sym"})

\* returns that bring their own labels, and a segments table of one row
InitLabelled ==
    /\ \E k \in SegmentKeys, l \in Labels :
         f_segments = Table({"meeting_id", "video_id", "segment_id", "emotion"},
                            << SegmentRow(k, l) >>)
    /\ \E rows \in SeqsUpTo({LabelledRow(k, s, l) : k \in SegmentKeys, s \in AssetSet,
                                                     l \in Labels}, 1) :
         f_returns = Table({"meeting_id", "segment_id", "sym", "emotion"}, rows)

InitFeatures == FeaturesStarted /\ (InitJoin \/ InitLabelled)

SpecFeatures == InitFeatures /\ [][NextFeatures]_vars

----------------------------------------------------------------------------
(* Properties of the feature assembly *)

\* the join has run on returns that bring no labels, against a segments table
\* with one row per (meeting_id, segment_id)
LabelJoinRan ==
    /\ f_pc \notin {"idle", "start"}
    /\ "emotion" \notin f_returns.columns
    /\ UniqueKeys(f_segments, JoinKey)

\* the label of the segment of return row r as the scripts read it, missing
\* when the segments table has no such segment
SegmentLabel(r) ==
    LET hits == SelectSeq(f_segments.rows, LAMBDA g : KeyOf(g, JoinKey) = KeyOf(r, JoinKey))
    IN IF hits = <<>> THEN "nan" ELSE Clean(hits[1]["emotion"])

\* C22: joining the segment labels onto the return rows by (meeting_id,
\* segment_id) does not abort and yields exactly one output row per return row,
\* in the same order, with the row's own values and the label of its segment,
\* also when the returns hold an ES and a ZT row for the same segment.
C22_LabelJoinKeepsRows ==
    LabelJoinRan =>
        /\ f_pc # "merge_error"
        /\ Len(f_joined.rows) = Len(f_returns.rows)
        /\ \A i \in DOMAIN f_returns.rows :
               /\ \A c \in f_returns.columns : f_joined.rows[i][c] = f_returns.rows[i][c]
               /\ Clean(f_joined.rows[i]["emotion"]) = SegmentLabel(f_returns.rows[i])

\* the label of feature row i, read case-insensitively from its emotion column
LabelOf(i) == Clean(f_features[i].row["emotion"])

IndicatorSum(i) ==
    f_features[i].emo.emo_happy + f_features[i].emo.emo_surprise + f_features[i].emo.emo_anxious

\* at most one indicator is 1, and a happy, surprise or anxious row has its own
OneHot(i) ==
    /\ IndicatorSum(i) <= 1
    /\ LabelOf(i) = "happy" => f_features[i].emo.emo_happy = 1
    /\ LabelOf(i) = "surprise" => f_features[i].emo.emo_surprise = 1
    /\ LabelOf(i) = "anxious" => f_features[i].emo.emo_anxious = 1

\* C23: in every feature row at most one of emo_happy, emo_surprise and
\* emo_anxious is 1, a row labelled happy, surprise or anxious has exactly its
\* own indicator set, and all three are 0 only when the label is neutral.
C23_OneHotNeutralBaseline ==
    f_pc = "features" =>
        \A i \in DOMAIN f_features :
            /\ OneHot(i)
            /\ IndicatorSum(i) = 0 => LabelOf(i) = "neutral"

----------------------------------------------------------------------------
(* Properties of the cache life cycle in a horizon sweep *)

\* build_price_cache is about to read the ticks of the pair at the head of its
\* loop and to store their series
AboutToBuild ==
    /\ pc = "build" /\ bq # <<>>
    /\ store[<<bq[1][2], bq[1][1]>>].exists
    /\ store[<<bq[1][2], bq[1][1]>>].cols

\* a step leaves every stored series as it is, and stores nothing outside
\* build_price_cache
SeriesKept ==
    /\ \A k \in DOMAIN cache : k \in DOMAIN cache' /\ cache'[k] = cache[k]
    /\ pc # "build" => cache' = cache

\* C24: in a horizon-sweep run every (meeting, instrument) series is built
\* exactly once, the building is over before the first as-of query, and
\* add_forward_returns leaves the cache and every series unchanged whatever the
\* number of (row, horizon) queries.
C24_BuildOnceThenReadOnly ==
    /\ [][SeriesKept]_vars
    /\ [](AboutToBuild => <<bq[1][2], bq[1][1]>> \notin DOMAIN cache)
    /\ [](pc \in {"main", "build"} => d_px = <<>> /\ hi = 0)
    /\ [](pc \in {"fwd", "done", "crashed"} => bq = <<>> /\ CacheAllProcessed)

\* a finished run that stored two series and queried them for several horizons
C24_Witness ==
    /\ pc = "done"
    /\ Cardinality(DOMAIN cache) >= 2
    /\ Len(d_px) >= 2
    /\ \E h \in DOMAIN d_px, i \in DOMAIN rets : ~d_px[h][i].nan

----------------------------------------------------------------------------
(* Independence of the (meeting, instrument) pairs and of the meetings *)

PairOf(r) == <<r.meeting_id, r.sym>>

\* the rows of pair k alone, as a frame of their own
SoloFrame(k) ==
    LET rows == SelectSeq(rets, LAMBDA r : PairOf(r) = k)
    IN [i \in DOMAIN rows |-> [rows[i] EXCEPT !.label = i - 1]]

\* the cache of a run that reads the tick file of pair k only
SoloCache(k) ==
    IF store[k].exists /\ store[k].cols
    THEN [x \in {k} |-> BuildSeries(k[2], store[k].ticks)]
    ELSE <<>>

\* row i of a frame with its deltas, one per horizon
OutputRow(frame, cols, i) ==
    [meeting_id |-> frame[i].meeting_id, sym |-> frame[i].sym,
     timestamp_utc |-> frame[i].timestamp_utc,
     d_px |-> [h \in DOMAIN cols |-> cols[h][i]]]

\* the output rows of pair k processed alone
SoloRows(k) ==
    LET f == SoloFrame(k)
        cols == [h \in DOMAIN horizons |-> Column(f, SoloCache(k), horizons[h]).out]
    IN {OutputRow(f, cols, i) : i \in DOMAIN f}

\* C25: the series and the forward returns of one pair depend only on that
\* pair's own ticks and rows: every stored series is the one built from the
\* pair's own file, every output row of a finished run carries the deltas its
\* pair gives when processed alone, and the output rows of the run are the
\* union of the rows of its pairs.
C25_PairsIndependent ==
    /\ \A k \in DOMAIN cache : cache[k] = BuildSeries(k[2], store[k].ticks)
    /\ pc = "done" =>
           /\ \A i \in DOMAIN rets :
                  OutputRow(rets, d_px, i) \in SoloRows(PairOf(rets[i]))
           /\ {OutputRow(rets, d_px, i) : i \in DOMAIN rets}
                  = UNION {SoloRows(PairOf(rets[i])) : i \in DOMAIN rets}

-----
(* add_forward_returns on frames with any index labels *)

\* the integer labels a frame of two rows may carry: 0 and 1 in either order,
\* repeated, or shifted as after a filter that dropped the first row
IndexLabels == {0, 1, 2}

\* the frame with its index replaced
Relabel(frame, labels) == [i \in DOMAIN frame |-> [frame[i] EXCEPT !.label = labels[i]]]

\* two rows of meeting 1 under any labels; every pair with no file, a file
\* without columns, the scenario's file or a file of its own
InitLabels ==
    /\ \E r1, r2 \in {1} \X AssetSet \X BatchRowTimes, labels \in [1..2 -> IndexLabels] :
         rets = Relabel(Frame(<<r1, r2>>), labels)
    /\ store \in [{1} \X AssetSet ->
                     {NoFile, NoColumns} \cup {TickFile(ScenarioTicks(s)) : s \in AssetSet}
                         \cup {TickFile(PairTicks(1, s)) : s \in AssetSet}]
    /\ \A k \in DOMAIN store :
         store[k] \in {NoFile, NoColumns, TickFile(ScenarioTicks(k[2])),
                       TickFile(PairTicks(k[1], k[2]))}
    /\ horizons = ScenarioHorizons
    /\ Started

SpecLabels == InitLabels /\ [][Next]_vars

\* C26: whatever the index labels of the frame, the delta computed from a row's
\* own meeting_id, sym and timestamp_utc is stored in that same row of d_px_h,
\* no delta is written to another row's position, and the write does not fail.
C26_RowAlignment ==
    /\ pc # "crashed"
    /\ \A h \in DOMAIN d_px, k \in DOMAIN rets :
           d_px[h][k] = FwdCell(rets[k], cache, horizons[h])

----------------------------------------------------------------------------
(* Consistency of the surprise records and coverage of the two windows *)

\* the prices, the delta and the surprise of record r are all there and its
\* notes are empty
RecordComplete(r) ==
    /\ ~r.price_pre.nan /\ ~r.price_post.nan
    /\ ~r.delta_implied_bps.nan /\ ~r.target_surprise_bps.nan
    /\ r.notes = ""

\* C27: every record of compute_for_meeting has symbol_used equal to its
\* primary symbol, its fallback symbol or None; symbol_used is set exactly when
\* price_pre, price_post, delta_implied_bps and target_surprise_bps are all
\* available and notes is empty; and then price_pre and price_post are prices
\* of trades of symbol_used itself, in the pre and in the post window.
C27_RecordConsistent ==
    \A r \in ZqRows :
        /\ r.symbol_used \in {r.primary_symbol, r.fallback_symbol, None}
        /\ r.symbol_used # None <=> RecordComplete(r)
        /\ r.symbol_used # None =>
               /\ r.price_pre.v \in {k.price : k \in PreTicks(r.meeting_id, r.symbol_used)}
               /\ r.price_post.v \in {k.price : k \in PostTicks(r.meeting_id, r.symbol_used)}

\* a record on the fallback symbol, from a file where the primary symbol has a
\* pre trade at a price no pre trade of the fallback has
C27_Witness ==
    /\ zq_pc = "done"
    /\ \E r \in ZqRows :
         /\ r.symbol_used = r.fallback_symbol
         /\ RecordComplete(r)
         /\ \E k \in PreTicks(r.meeting_id, r.primary_symbol) :
                k.price \notin {x.price : x \in PreTicks(r.meeting_id, r.fallback_symbol)}

\* the trades of sym in the day's file with event time in [t0 - 10 min, t0 + 10 min]
InRangeTicks(day, sym) ==
    LET t0 == t0_utc_on_meeting_day(day)
    IN {k \in Range(zq_files[day].ticks) :
           /\ k.symbol = sym
           /\ TsLeq(TsAddSec(t0, -PRE_SEC), k.ts_event)
           /\ TsLeq(k.ts_event, TsAddSec(t0, POST_SEC))}

\* those strictly before t0, and those at or after t0
BeforeT0(day, sym) ==
    {k \in InRangeTicks(day, sym) : ~TsLeq(t0_utc_on_meeting_day(day), k.ts_event)}
FromT0(day, sym) ==
    {k \in InRangeTicks(day, sym) : TsLeq(t0_utc_on_meeting_day(day), k.ts_event)}

\* C28: every trade of a candidate with event time in [t0 - 10 min, t0 + 10 min]
\* counts in exactly one window, at nanosecond resolution: the pre price is the
\* last trade strictly before t0 and the post price the last trade at or after
\* t0, so that no trade of the range is ignored by both windows.
C28_WindowCoverage ==
    \A day \in Range(map_dates) :
        zq_files[day].status = "ok" =>
            \A sym \in {zq_symbol_for_meeting(day), zq_next_month_symbol(day)} :
                \A c \in Candidates(day, sym) :
                    /\ c.p_pre.nan <=> BeforeT0(day, sym) = {}
                    /\ c.p_post.nan <=> FromT0(day, sym) = {}
                    /\ ~c.p_pre.nan => c.p_pre.v \in LatestPrices(BeforeT0(day, sym))
                    /\ ~c.p_post.nan => c.p_post.v \in LatestPrices(FromT0(day, sym))

====
